---- MODULE Spec2Model ----
(***************************************************************************)
(* A model of the stock-data fetching scripts: the response normalizers    *)
(* (Yahoo chart, Polygon aggregates, Alpha Vantage daily series, IBKR      *)
(* bars, yfinance frames), the HTTP retry loops, the batch orchestrators,  *)
(* the rate limiters, the IBKR connection and the TSI history file.        *)
(*                                                                         *)
(* Conventions                                                             *)
(*   - A JSON value that may be null is a sequence: <<>> is null/None and  *)
(*     <<x>> is the number x.                                              *)
(*   - Prices are integers in units of 10^-5, so that round(x, 4) is a     *)
(*     real operation (Round4); volumes are integers.                      *)
(*   - A bar time is in epoch seconds; the process time zone is UTC.  A    *)
(*     'YYYY-MM-DD' string is represented by the midnight of its day: the  *)
(*     zero-padded string orders and compares exactly as that number.      *)
(*   - A ticker is a sequence of characters.                               *)
(*   - A fetch result is the record Failure (Python None) or Ok(rows).     *)
(***************************************************************************)
EXTENDS Integers, Sequences, FiniteSets, TLC

VARIABLES
    \* --- normalizer runs (SpecNorm)
    payload,      \* the vendor payload handed to the normalizer
    symbol,       \* the ticker the payload was fetched for
    days,         \* the lookback argument
    normalizer,   \* which normalizer has run ("none" before)
    result,       \* what it returned
    \* --- batch orchestrator runs (SpecBatch)
    orch,         \* which orchestrator runs
    symbols,      \* its (shuffled) symbol list
    pos,          \* number of list positions processed
    data,         \* success map: set of [symbol, rows] pairs, keyed by symbol
    failed,       \* failure list
    successful,   \* successful_updates counter
    attempted,    \* per list position: number of times it was fetched
    lastFetch,    \* what the latest per-symbol fetch did
    phase,        \* "start", "loop", "fetched" (adapter returned, outcome not
                  \* yet recorded), "done", "returned" (left before the loop),
                  \* "aborted" (an exception left the loop) or "raised"
                  \* (os.makedirs before the loop, or the write after it,
                  \* raised)
    rate_limit_status,  \* update_market_data: what check_rate_limit_status
                  \* returned to a run that went on to its early return or
                  \* its loop ("none" otherwise)
    \* --- rate limiter runs (SpecLimiter)
    svc,          \* which service's limiter runs
    clock,        \* wall clock, milliseconds
    lim,          \* the limiter's fields
    lastCall,     \* what the latest _apply_rate_limit call did
    passed,       \* the times at which the limiter let a request through
    \* --- what a run leaves behind (SpecBatch)
    file,         \* [output, status]: content of the run's output file and of
                  \* download_status.json (<<>>: no such file)
    run,          \* [at, write_failed]: how far run_daily_download has come
    \* --- last-trading-day computations (SpecCalendar)
    calNow,       \* datetime.now(), epoch seconds
    lastDay,      \* what the computation returned (<<>> before)
    \* --- the IBKR connection (SpecIbkr)
    ib,           \* IBKRService.ib is set (an IB object, not None)
    connected,    \* IBKRService._connected
    connects,     \* connect() calls that returned True during the batch call
    \* --- the TSI history file (SpecTsi)
    history,      \* data/shazam-tsi-history.csv
    tsiNow,       \* datetime.now(), epoch seconds
    tsiRun        \* what the latest update_tsi_history call was given and did

normVars == <<payload, symbol, days, normalizer, result>>
batchVars == <<orch, symbols, pos, data, failed, successful, attempted, lastFetch, phase,
               rate_limit_status>>
limVars == <<svc, clock, lim, lastCall, passed>>
outVars == <<file, run>>
calVars == <<calNow, lastDay>>
ibkrVars == <<ib, connected, connects>>
tsiVars == <<history, tsiNow, tsiRun>>
vars == <<payload, symbol, days, normalizer, result,
          orch, symbols, pos, data, failed, successful, attempted, lastFetch, phase,
          rate_limit_status,
          svc, clock, lim, lastCall, passed, file, run, calNow, lastDay,
          ib, connected, connects, history, tsiNow, tsiRun>>

-----------------------------------------------------------------------------
(* Values *)

None == <<>>
Some(x) == <<x>>
Val(o) == o[1]

Failure == [ok |-> FALSE, rows |-> <<>>]
Ok(rows) == [ok |-> TRUE, rows |-> rows]
\* Python truthiness of a fetch result: neither None nor an empty list

Indices(n) == [i \in 1..n |-> i]
Max(a, b) == IF a >= b THEN a ELSE b
Min(a, b) == IF a <= b THEN a ELSE b

\* a slice from the wrong end: s[:n]
PyFirst(s, n) == SubSeq(s, 1, Min(Len(s), n))

\* Python s[-n:]
PyLast(s, n) ==
    IF n = 0 THEN s
    ELSE IF n < 0 THEN SubSeq(s, Min(Len(s), -n) + 1, Len(s))
    ELSE SubSeq(s, Max(1, Len(s) - n + 1), Len(s))

\* Python sorted(..., key = date) / list.sort(key = date): ascending and stable
SortByDate(s) ==
    LET idx == SortSeq(Indices(Len(s)),
                       LAMBDA i, j : s[i].date < s[j].date
                                     \/ (s[i].date = s[j].date /\ i < j))
    IN [k \in 1..Len(s) |-> s[idx[k]]]

\* round(x, 4) of a price in units of 10^-5 (no input is an exact half)
Round4(p) == ((p + 5) \div 10) * 10

-----------------------------------------------------------------------------
(* Calendar *)

SecondsPerDay == 24 * 60 * 60
\* datetime.fromtimestamp(ts).date(), as the epoch day number
DayOf(ts) == ts \div SecondsPerDay
\* datetime.weekday(): Monday = 0 .. Sunday = 6 (1970-01-01 was a Thursday)
Weekday(ts) == (DayOf(ts) + 3) % 7
\* strftime('%Y-%m-%d') (and strptime back): the day, without the time of day
DateStr(ts) == DayOf(ts) * SecondsPerDay

-----------------------------------------------------------------------------
(* Tickers *)

EndsWith(s, suf) ==
    Len(s) >= Len(suf) /\ SubSeq(s, Len(s) - Len(suf) + 1, Len(s)) = suf
DotTA == <<".", "T", "A">>
DotTLV == <<".", "T", "L", "V">>
UsSymbol == <<"A">>
TaSymbol == <<"T", ".", "T", "A">>

-----------------------------------------------------------------------------
(* Vendor payloads: parallel arrays, as the Yahoo chart endpoint sends them. *)
(* The per-bar views of the other vendors read the same arrays; a field    *)
(* whose array is too short is a missing key.                              *)

ShortFill == 5        \* a history just long enough for the 5-row minimum
LongFill == 71        \* a history with more than 50 trading days
MaxLookback == 2      \* the services are called with days in 1..MaxLookback
BarOffset == 7 * 60 * 60   \* time of day of a daily bar's timestamp

PriceFields == {"open", "high", "low", "close"}
ArrayFields == PriceFields \cup {"volume"}
BaseQuote == [open |-> Some(20), high |-> Some(20), low |-> Some(20),
              close |-> Some(20), volume |-> Some(1)]
PriceVals == {None} \cup {Some(p) : p \in {0, 4, 10, 20, 30}}
VolVals == {None, Some(-1), Some(0), Some(1)}
\* the base quote with one field changed
ProbeQuotes ==
    {[BaseQuote EXCEPT ![f] = v] : f \in PriceFields, v \in PriceVals}
    \cup {[BaseQuote EXCEPT !.volume = v] : v \in VolVals}
BarAtDay(d, q) ==
    [t |-> d * SecondsPerDay + BarOffset, open |-> q.open, high |-> q.high,
     low |-> q.low, close |-> q.close, volume |-> q.volume]
\* k good bars on consecutive days 0 .. k-1
Filler(k) == [i \in 1..k |-> BarAtDay(i - 1, BaseQuote)]
\* the probe bar is more recent than every filler bar, on any weekday
ProbeDays == {LongFill + d : d \in 1..7}
ProbeBars == {BarAtDay(d, q) : d \in ProbeDays, q \in ProbeQuotes}
Reverse(s) == [i \in 1..Len(s) |-> s[Len(s) + 1 - i]]
\* the parallel arrays of a bar list; the array named short lacks its last entry
Arrays(bars, short) ==
    LET n == Len(bars)
        len(f) == IF f = short /\ n > 0 THEN n - 1 ELSE n
    IN [timestamp |-> [i \in 1..n |-> bars[i].t],
        open   |-> [i \in 1..len("open")   |-> bars[i].open],
        high   |-> [i \in 1..len("high")   |-> bars[i].high],
        low    |-> [i \in 1..len("low")    |-> bars[i].low],
        close  |-> [i \in 1..len("close")  |-> bars[i].close],
        volume |-> [i \in 1..len("volume") |-> bars[i].volume]]
BarLists ==
    LET asc == {Filler(k) : k \in {0, ShortFill, LongFill}}
               \cup {Filler(k) \o <<b>> : k \in {0, ShortFill, LongFill}, b \in ProbeBars}
    IN asc \cup {Reverse(s) : s \in asc}
Payloads == {Arrays(bars, short) : bars \in BarLists, short \in ArrayFields \cup {"none"}}
EmptyPayload == Arrays(<<>>, "none")

-----------------------------------------------------------------------------
(* yahoo_finance_service.py: YahooFinanceService *)

StockData(sym, date, o, h, l, c, v) ==
    [symbol |-> sym, date |-> date, open |-> o, high |-> h, low |-> l,
     close |-> c, volume |-> v]

YahooIsUsMarketSymbol(sym) == ~(EndsWith(sym, DotTA) \/ EndsWith(sym, DotTLV))

YahooIsTradingDay(date, is_us_market) ==
    LET weekday == Weekday(date)
    IN IF is_us_market THEN 0 <= weekday /\ weekday <= 4
       ELSE weekday = 6 \/ (0 <= weekday /\ weekday <= 3)

\* The skip condition of one row, evaluated left to right as Python does:
\* "raise" is the IndexError of reading past the end of a parallel array.
YahooRowOutcome(d, i) ==
    IF i > Len(d.open) THEN "raise" ELSE IF d.open[i] = None THEN "skip"
    ELSE IF i > Len(d.high) THEN "raise" ELSE IF d.high[i] = None THEN "skip"
    ELSE IF i > Len(d.low) THEN "raise" ELSE IF d.low[i] = None THEN "skip"
    ELSE IF i > Len(d.close) THEN "raise" ELSE IF d.close[i] = None THEN "skip"
    ELSE IF i > Len(d.volume) THEN "raise" ELSE IF d.volume[i] = None THEN "skip"
    ELSE IF Val(d.open[i]) <= 0 \/ Val(d.close[i]) <= 0 THEN "skip"
    ELSE "keep"

ParseYahooResponse(d, sym) ==
    LET n == Len(d.timestamp)
        keep == SelectSeq(Indices(n), LAMBDA i : YahooRowOutcome(d, i) = "keep")
    IN [raised |-> \E i \in 1..n : YahooRowOutcome(d, i) = "raise",
        rows |-> [k \in 1..Len(keep) |->
                    StockData(sym, d.timestamp[keep[k]], Val(d.open[keep[k]]),
                              Val(d.high[keep[k]]), Val(d.low[keep[k]]),
                              Val(d.close[keep[k]]), Val(d.volume[keep[k]]))]]

\* fetch_stock_data from the 200 response on: parse, filter, sort, truncate;
\* any exception is caught and gives None
\* the parsed rows that pass the trading-day filter
YahooSurvivors(d, sym) ==
    LET is_us_market == YahooIsUsMarketSymbol(sym)
    IN SelectSeq(ParseYahooResponse(d, sym).rows,
                 LAMBDA r : YahooIsTradingDay(r.date, is_us_market))

YahooNormalize(d, sym, n) ==
    LET parsed == ParseYahooResponse(d, sym)
        trading_days_only == SortByDate(YahooSurvivors(d, sym))
    IN IF parsed.raised THEN Failure
       ELSE Ok(IF Len(trading_days_only) > n THEN PyLast(trading_days_only, n)
               ELSE trading_days_only)

-----------------------------------------------------------------------------
(* fetch_ta125_data.py: process_yahoo_response *)

TA_LOOKBACK == 50
TA_MIN_ROWS == 5

\* a row reaches the entry: every array has index i, no field is null,
\* open and close are positive
TaRowRead(d, i) ==
    /\ \A f \in ArrayFields : i <= Len(d[f])
    /\ \A f \in ArrayFields : d[f][i] # None
    /\ ~(Val(d.open[i]) <= 0 \/ Val(d.close[i]) <= 0)

TaEntry(d, sym, i) ==
    [symbol |-> sym, date |-> DateStr(d.timestamp[i]),
     open |-> Round4(Val(d.open[i])), high |-> Round4(Val(d.high[i])),
     low |-> Round4(Val(d.low[i])), close |-> Round4(Val(d.close[i])),
     volume |-> Val(d.volume[i])]

\* the "basic validation" of the entry
TaEntryValid(entry) == entry.high >= entry.low /\ entry.volume >= 0

\* the valid entries that pass the Sunday-Thursday filter
TaSurvivors(d, sym) ==
    LET keep == SelectSeq(Indices(Len(d.timestamp)),
                          LAMBDA i : TaRowRead(d, i) /\ TaEntryValid(TaEntry(d, sym, i)))
        stock_data_entries == [k \in 1..Len(keep) |-> TaEntry(d, sym, keep[k])]
    IN SelectSeq(stock_data_entries,
                 LAMBDA e : Weekday(e.date) = 6 \/ Weekday(e.date) <= 3)

ProcessYahooResponse(sym, d) ==
    LET trading_days_only == PyLast(SortByDate(TaSurvivors(d, sym)), TA_LOOKBACK)
    IN IF Len(trading_days_only) >= TA_MIN_ROWS THEN Ok(trading_days_only) ELSE Failure

-----------------------------------------------------------------------------
(* polygon_io_service.py: PolygonIOService *)

PolygonIsUsMarketSymbol(sym) == ~(EndsWith(sym, DotTA) \/ EndsWith(sym, DotTLV))

PolygonIsTradingDay(date, is_us_market) ==
    LET weekday == Weekday(date)
    IN IF is_us_market THEN 0 <= weekday /\ weekday <= 4
       ELSE weekday = 6 \/ (0 <= weekday /\ weekday <= 3)

\* float(result['o']) .. int(result['v']) succeed: no key missing, no null
PolygonRowParses(d, i) ==
    \A f \in ArrayFields : i <= Len(d[f]) /\ d[f][i] # None

PolygonRowValid(d, i) ==
    ~(Val(d.open[i]) <= 0 \/ Val(d.high[i]) <= 0 \/ Val(d.low[i]) <= 0
      \/ Val(d.close[i]) <= 0 \/ Val(d.volume[i]) <= 0)

\* result['t'] is in milliseconds and timestamp / 1000 gives the epoch seconds
\* that d.timestamp holds
ParsePolygonResponse(d, sym) ==
    LET keep == SelectSeq(Indices(Len(d.timestamp)),
                          LAMBDA i : PolygonRowParses(d, i) /\ PolygonRowValid(d, i))
    IN [k \in 1..Len(keep) |->
          StockData(sym, d.timestamp[keep[k]], Val(d.open[keep[k]]),
                    Val(d.high[keep[k]]), Val(d.low[keep[k]]),
                    Val(d.close[keep[k]]), Val(d.volume[keep[k]]))]

\* fetch_stock_data from the 200 response on
PolygonSurvivors(d, sym) ==
    LET is_us_market == PolygonIsUsMarketSymbol(sym)
    IN SelectSeq(ParsePolygonResponse(d, sym),
                 LAMBDA r : PolygonIsTradingDay(r.date, is_us_market))

PolygonNormalize(d, sym, n) ==
    IF Len(d.timestamp) = 0 THEN Failure
    ELSE
    LET trading_days_only == SortByDate(PolygonSurvivors(d, sym))
    IN Ok(IF Len(trading_days_only) > n THEN PyLast(trading_days_only, n)
          ELSE trading_days_only)

-----------------------------------------------------------------------------
(* fetch_sp500_data.py: fetch_stock_data_alphavantage *)

AV_LOOKBACK == 50
FieldOrder == <<"open", "high", "low", "close", "volume">>
AvFlags == {"none", "Error Message", "Note"}

\* building one entry, field by field in source order: a missing key is a
\* KeyError (the row is skipped), a null is a TypeError (not caught per row)
RECURSIVE AvRowOutcomeFrom(_, _, _)
AvRowOutcomeFrom(d, i, k) ==
    IF k > Len(FieldOrder) THEN "keep"
    ELSE IF i > Len(d[FieldOrder[k]]) THEN "skip"
    ELSE IF d[FieldOrder[k]][i] = None THEN "raise"
    ELSE AvRowOutcomeFrom(d, i, k + 1)
AvRowOutcome(d, i) == AvRowOutcomeFrom(d, i, 1)

AvEntry(d, sym, i) ==
    [symbol |-> sym, date |-> DateStr(d.timestamp[i]),
     open |-> Round4(Val(d.open[i])), high |-> Round4(Val(d.high[i])),
     low |-> Round4(Val(d.low[i])), close |-> Round4(Val(d.close[i])),
     volume |-> Val(d.volume[i])]

\* from response.json() on; flag is the error field the body carries, d its
\* 'Time Series (Daily)'
AvSurvivors(d, sym) ==
    LET keep == SelectSeq(Indices(Len(d.timestamp)), LAMBDA i : AvRowOutcome(d, i) = "keep")
    IN [k \in 1..Len(keep) |-> AvEntry(d, sym, keep[k])]

AlphaVantageNormalize(flag, d, sym) ==
    LET n == Len(d.timestamp)
        stock_data_entries == AvSurvivors(d, sym)
    IN IF flag # "none" THEN Failure
       ELSE IF n = 0 THEN Failure
       ELSE IF \E i \in 1..n : AvRowOutcome(d, i) = "raise" THEN Failure
       ELSE Ok(PyLast(SortByDate(stock_data_entries), AV_LOOKBACK))

-----------------------------------------------------------------------------
(* ibkr_service.py: IBKRService *)

\* str.replace(pat, ''): every occurrence, left to right
RECURSIVE RemoveAll(_, _)
RemoveAll(s, pat) ==
    IF Len(s) < Len(pat) THEN s
    ELSE IF SubSeq(s, 1, Len(pat)) = pat
         THEN RemoveAll(SubSeq(s, Len(pat) + 1, Len(s)), pat)
    ELSE <<s[1]>> \o RemoveAll(SubSeq(s, 2, Len(s)), pat)

ConvertSymbolForIbkr(yahoo_symbol) ==
    IF EndsWith(yahoo_symbol, DotTA) \/ EndsWith(yahoo_symbol, DotTLV)
    THEN RemoveAll(RemoveAll(yahoo_symbol, DotTA), DotTLV)
    ELSE yahoo_symbol

ConvertSymbolToYahoo(ibkr_symbol) ==
    IF ~EndsWith(ibkr_symbol, DotTA) THEN ibkr_symbol \o DotTA ELSE ibkr_symbol

IsTaseTradingDay(date) ==
    LET weekday == Weekday(date)
    IN weekday = 6 \/ (0 <= weekday /\ weekday <= 3)

IbkrRowParses(d, i) ==
    \A f \in ArrayFields : i <= Len(d[f]) /\ d[f][i] # None

IbkrRowValid(d, i) ==
    ~(Val(d.open[i]) <= 0 \/ Val(d.high[i]) <= 0 \/ Val(d.low[i]) <= 0
      \/ Val(d.close[i]) <= 0)

ParseIbkrResponse(d, sym) ==
    LET yahoo_symbol == ConvertSymbolToYahoo(ConvertSymbolForIbkr(sym))
        keep == SelectSeq(Indices(Len(d.timestamp)),
                          LAMBDA i : IbkrRowParses(d, i) /\ IbkrRowValid(d, i))
    IN [k \in 1..Len(keep) |->
          StockData(yahoo_symbol, d.timestamp[keep[k]], Val(d.open[keep[k]]),
                    Val(d.high[keep[k]]), Val(d.low[keep[k]]), Val(d.close[keep[k]]),
                    IF Val(d.volume[keep[k]]) >= 0 THEN Val(d.volume[keep[k]]) ELSE 0)]

\* fetch_stock_data from the bars on
IbkrSurvivors(d, sym) ==
    SelectSeq(ParseIbkrResponse(d, sym), LAMBDA r : IsTaseTradingDay(r.date))

IbkrNormalize(d, sym, n) ==
    IF Len(d.timestamp) = 0 THEN Failure
    ELSE
    LET trading_days_only == SortByDate(IbkrSurvivors(d, sym))
    IN Ok(IF Len(trading_days_only) > n THEN PyLast(trading_days_only, n)
          ELSE trading_days_only)

-----------------------------------------------------------------------------
(* fetch_stock_data.py: process_stock_data *)

YF_LOOKBACK == 50
YF_MIN_ROWS == 5

\* hist.dropna(): a frame row with a NaN (null or absent value) is dropped
FrameRowClean(d, i) ==
    \A f \in ArrayFields : i <= Len(d[f]) /\ d[f][i] # None

\* the "basic validation", on the values before rounding
FrameRowInvalid(d, i) ==
    \/ Val(d.high[i]) < Val(d.low[i])
    \/ Val(d.volume[i]) < 0
    \/ \E f \in PriceFields : Val(d[f][i]) <= 0

FrameHist(d) == SelectSeq(Indices(Len(d.timestamp)), LAMBDA i : FrameRowClean(d, i))

YfSurvivors(d, sym) ==
    LET keep == SelectSeq(FrameHist(d), LAMBDA i : ~FrameRowInvalid(d, i))
    IN [k \in 1..Len(keep) |->
          [symbol |-> sym, date |-> DateStr(d.timestamp[keep[k]]),
           open |-> Round4(Val(d.open[keep[k]])),
           high |-> Round4(Val(d.high[keep[k]])),
           low |-> Round4(Val(d.low[keep[k]])),
           close |-> Round4(Val(d.close[keep[k]])),
           volume |-> Val(d.volume[keep[k]])]]

ProcessStockData(sym, d) ==
    LET stock_data_entries == PyLast(SortByDate(YfSurvivors(d, sym)), YF_LOOKBACK)
    IN IF Len(FrameHist(d)) < YF_MIN_ROWS THEN Failure
       ELSE IF Len(stock_data_entries) < YF_MIN_ROWS THEN Failure
       ELSE Ok(stock_data_entries)

-----------------------------------------------------------------------------
(* Rate limiters.  Times are in milliseconds and a stored datetime is the    *)
(* clock value it was read at.  A call is given the clock value at entry     *)
(* (now) and its random draw; time.sleep(t) takes t and raises ValueError    *)
(* when t < 0, which ends the call with the fields as they were then.  A     *)
(* call gives [lim, sleeps, raised]: the fields after it, the arguments of   *)
(* the sleeps it made in order, and whether it raised.                       *)

MsPerSecond == 1000
Seconds(n) == n * MsPerSecond
\* datetime.second
Second(now) == (now \div MsPerSecond) % 60

RECURSIVE SumSeq(_)
SumSeq(s) == IF s = <<>> THEN 0 ELSE s[1] + SumSeq(Tail(s))

Returned(l, sleeps) == [lim |-> l, sleeps |-> sleeps, raised |-> FALSE]
Raised(l, sleeps) == [lim |-> l, sleeps |-> sleeps, raised |-> TRUE]

\* a mandatory gap is enforced whatever the time since the last request
TooSoonAlways(time_since_last, min_delay) == TRUE

\* no gap is ever enforced between two requests
NeverTooSoon(time_since_last, min_delay) == FALSE

\* time_since_last < min_delay
TooSoon(time_since_last, min_delay) == time_since_last < Seconds(min_delay)

\* (now - self.last_request_time).total_seconds() >= 60, or no request yet
MinuteElapsed(l, now) == l.last = None \/ now - Val(l.last) >= Seconds(60)

\* wait_time = 60 - now.second
UntilNextMinute(now) == Seconds(60 - Second(now))

YAHOO_MIN_REQUEST_DELAY == 2
YAHOO_MAX_REQUEST_DELAY == 5
YAHOO_MAX_REQUESTS_PER_MINUTE == 15
YAHOO_PENALTY == 10

YahooInit == [last |-> None, count |-> 0]

YahooApplyRateLimit(l, now, rnd) ==
    LET count1 == IF MinuteElapsed(l, now) THEN 0 ELSE l.count
        limited == count1 >= YAHOO_MAX_REQUESTS_PER_MINUTE
        wait_time == UntilNextMinute(now)
        count2 == IF limited THEN 0 ELSE count1
        first == IF limited THEN <<wait_time>> ELSE <<>>
        delay_ms == Seconds(YAHOO_MIN_REQUEST_DELAY) + rnd
    IN IF limited /\ wait_time < 0
       THEN Raised([l EXCEPT !.count = count1], first)
       ELSE IF delay_ms < 0
       THEN Raised([l EXCEPT !.count = count2], first \o <<delay_ms>>)
       ELSE Returned([last |-> Some(now), count |-> count2 + 1], first \o <<delay_ms>>)

YahooHandleRateLimiting(l) == [l EXCEPT !.count = @ + YAHOO_PENALTY]

POLYGON_MAX_REQUESTS_PER_MINUTE == 5
POLYGON_GAP == 12
POLYGON_BURST == 5
POLYGON_BURST_SLEEP == 15

PolygonInit == [last |-> None, count |-> 0]

\* the counter is not set back after the fifth request of a group
PolygonKeepsCounting(l, now) ==
    LET count1 == IF MinuteElapsed(l, now) THEN 0 ELSE l.count
        limited == count1 >= POLYGON_MAX_REQUESTS_PER_MINUTE
        wait_time == UntilNextMinute(now)
        count2 == IF limited THEN 0 ELSE count1
        first == IF limited THEN <<wait_time>> ELSE <<>>
        gap == l.last # None /\ TooSoon(now - Val(l.last), POLYGON_GAP)
        gap_time == Seconds(POLYGON_GAP) - (now - Val(l.last))
        second == IF gap THEN first \o <<gap_time>> ELSE first
        stamped == [last |-> Some(now + SumSeq(second)), count |-> count2 + 1]
    IN IF (limited /\ wait_time < 0) \/ (gap /\ gap_time < 0)
       THEN Raised([l EXCEPT !.count = count2], second)
       ELSE Returned(stamped, second \o <<Seconds(POLYGON_BURST_SLEEP)>>)

PolygonApplyRateLimit(l, now) ==
    LET count1 == IF MinuteElapsed(l, now) THEN 0 ELSE l.count
        limited == count1 >= POLYGON_MAX_REQUESTS_PER_MINUTE
        wait_time == UntilNextMinute(now)
        count2 == IF limited THEN 0 ELSE count1
        first == IF limited THEN <<wait_time>> ELSE <<>>
        gap == l.last # None /\ TooSoon(now - Val(l.last), POLYGON_GAP)
        gap_time == Seconds(POLYGON_GAP) - (now - Val(l.last))
        second == IF gap THEN first \o <<gap_time>> ELSE first
        count3 == count2 + 1
        stamped == [last |-> Some(now + SumSeq(second)), count |-> count3]
        burst == count3 >= POLYGON_BURST
    IN IF limited /\ wait_time < 0
       THEN Raised([l EXCEPT !.count = count1], first)
       ELSE IF gap /\ gap_time < 0
       THEN Raised([l EXCEPT !.count = count2], second)
       ELSE IF burst
       THEN Returned([stamped EXCEPT !.count = 0],
                     second \o <<Seconds(POLYGON_BURST_SLEEP)>>)
       ELSE Returned(stamped, second)

IBKR_MIN_REQUEST_DELAY == 10
IBKR_MAX_REQUESTS_PER_10MIN == 60
IBKR_MARGIN == 5
TenMinutes == Seconds(10 * 60)

IbkrInit == [stamps |-> <<>>, last |-> None]

\* min(self.request_times)
MinOf(s) == s[CHOOSE i \in 1..Len(s) : \A j \in 1..Len(s) : s[i] <= s[j]]

IbkrApplyRateLimit(l, now) ==
    LET cutoff == now - TenMinutes
        stamps1 == SelectSeq(l.stamps, LAMBDA ts : ts > cutoff)
        cleaned == [l EXCEPT !.stamps = stamps1]
        near == Len(stamps1) >= IBKR_MAX_REQUESTS_PER_10MIN - IBKR_MARGIN
        wait_time == MinOf(stamps1) + TenMinutes - now
        first == IF near /\ wait_time > 0 THEN <<wait_time + Seconds(1)>> ELSE <<>>
        gap == l.last # None /\ TooSoon(now - Val(l.last), IBKR_MIN_REQUEST_DELAY)
        gap_time == Seconds(IBKR_MIN_REQUEST_DELAY) - (now - Val(l.last))
        second == IF gap THEN first \o <<gap_time>> ELSE first
        end == now + SumSeq(second)
    IN IF gap /\ gap_time < 0
       THEN Raised(cleaned, second)
       ELSE Returned([stamps |-> Append(stamps1, end), last |-> Some(end)], second)

EARNINGS_MIN_REQUEST_DELAY == 12

EarningsInit == [last |-> None]

EarningsApplyRateLimit(l, now) ==
    LET gap == l.last # None /\ TooSoon(now - Val(l.last), EARNINGS_MIN_REQUEST_DELAY)
        gap_time == Seconds(EARNINGS_MIN_REQUEST_DELAY) - (now - Val(l.last))
        sleeps == IF gap THEN <<gap_time>> ELSE <<>>
    IN IF gap /\ gap_time < 0
       THEN Raised(l, sleeps)
       ELSE Returned([last |-> Some(now + SumSeq(sleeps))], sleeps)

-----------------------------------------------------------------------------
(* HTTP responses and the per-symbol adapters.  What the network does to the  *)
(* k-th request of a fetch is the k-th element of a response sequence: a    *)
(* status, or the exception the request raised.  A fetch gives               *)
(* [requests, sleeps, raised, result]: the number of requests sent, the      *)
(* backoff waits made between them, whether an exception left the adapter,   *)
(* and the value returned.                                                   *)

BatchFill == 7            \* bars in the payload of a good response
GoodPayload == Arrays(Filler(BatchFill), "none")
ShortArrayPayload == Arrays(Filler(BatchFill), "open")

\* only 429 counts as rate limiting
OnlyTooManyRequests == {"429"}

\* response.status_code in [503, 429]
RateLimited == {"429", "503"}
Transport == {"RequestException", "Exception"}   \* the request itself raised
Resp(kind, shape, d) == [kind |-> kind, shape |-> shape, payload |-> d]
\* a 200 whose body is not JSON, lacks the data key, or carries a payload
Responses ==
    {Resp(k, "nodata", EmptyPayload) : k \in {"404", "429", "503"} \cup Transport}
    \cup {Resp("200", sh, EmptyPayload) : sh \in {"notjson", "nodata"}}
    \cup {Resp("200", "data", d) : d \in {GoodPayload, ShortArrayPayload}}

NoFetch == [requests |-> 0, sleeps |-> <<>>, raised |-> FALSE, result |-> Failure]
Sent(acc) == [acc EXCEPT !.requests = @ + 1]
Slept(acc, t) == [acc EXCEPT !.sleeps = Append(@, t)]
Raise(acc) == [acc EXCEPT !.raised = TRUE, !.result = Failure]
Return(acc, r) == [acc EXCEPT !.result = r]

\* the exception leaves the adapter
Propagate(f) == f

\* a result is recorded as a success whatever it is
AlwaysTruthy(r) == TRUE

\* if stock_data:
Truthy(r) == r.ok /\ Len(r.rows) > 0

\* except Exception as e: ... return None
CatchAll(f) == IF f.raised THEN [f EXCEPT !.raised = FALSE, !.result = Failure] ELSE f

TA_MAX_RETRIES == 3

\* fetch_yahoo_finance_data: the retry loop from iteration `attempt` on;
\* jit[k] is the random.uniform(2, 5) draw of iteration k - 1
RECURSIVE TaRetryLoop(_, _, _, _, _)
TaRetryLoop(sym, resp, jit, attempt, acc) ==
    IF attempt >= TA_MAX_RETRIES
    THEN Return(acc, Failure)
    ELSE LET r == resp[attempt + 1]
             sent == Sent(acc)
             backoff_delay == Seconds(2 ^ attempt) + jit[attempt + 1]
             more == attempt < TA_MAX_RETRIES - 1
             again == TaRetryLoop(sym, resp, jit, attempt + 1, Slept(sent, backoff_delay))
         IN CASE r.kind = "200" /\ r.shape = "data" ->
                     Return(sent, ProcessYahooResponse(sym, r.payload))
              [] r.kind = "200" /\ r.shape = "nodata" -> Return(sent, Failure)
              [] r.kind \in RateLimited ->
                     IF more THEN again
                     ELSE TaRetryLoop(sym, resp, jit, attempt + 1, sent)
              [] r.kind \in Transport \/ (r.kind = "200" /\ r.shape = "notjson") ->
                     IF more THEN again ELSE Return(sent, Failure)
              [] OTHER -> Return(sent, Failure)

FetchYahooFinanceData(sym, resp, jit) == CatchAll(TaRetryLoop(sym, resp, jit, 0, NoFetch))

YAHOO_RETRY_BACKOFF_BASE == 5
YAHOO_MAX_RETRIES == 3
POLYGON_RETRY_BACKOFF_BASE == 5
POLYGON_MAX_RETRIES == 3

\* _execute_with_retry of the Yahoo and Polygon services (the same code), from
\* attempt number `attempt` on; gives the fetch so far and the response
\* returned (None, or Some response)
RECURSIVE ExecuteWithRetry(_, _, _, _, _)
ExecuteWithRetry(resp, max_retries, base, attempt, acc) ==
    IF attempt > max_retries
    THEN [fetch |-> acc, response |-> None]
    ELSE LET r == resp[attempt]
             sent == Sent(acc)
             backoff_delay == Seconds(base * 2 ^ (attempt - 1))
             again == ExecuteWithRetry(resp, max_retries, base, attempt + 1,
                                       Slept(sent, backoff_delay))
         IN CASE r.kind = "RequestException" ->
                     IF attempt < max_retries THEN again
                     ELSE [fetch |-> sent, response |-> None]
              [] r.kind = "Exception" -> [fetch |-> Raise(sent), response |-> None]
              [] r.kind \in RateLimited /\ attempt < max_retries -> again
              [] OTHER -> [fetch |-> sent, response |-> Some(r)]

\* YahooFinanceService.fetch_stock_data: [fetch, lim, limsleeps], the limiter
\* fields after it and the sleeps its limiter call made
YahooFetchStockData(l, now, rnd, sym, n, resp) ==
    LET rate == YahooApplyRateLimit(l, now, rnd)
        ex == ExecuteWithRetry(resp, YAHOO_MAX_RETRIES, YAHOO_RETRY_BACKOFF_BASE, 1, NoFetch)
        r == Val(ex.response)
        out(f, lm) == [fetch |-> CatchAll(f), lim |-> lm, limsleeps |-> rate.sleeps]
    IN IF rate.raised THEN out(Raise(NoFetch), rate.lim)
       ELSE IF ex.fetch.raised \/ ex.response = None THEN out(ex.fetch, rate.lim)
       ELSE IF r.kind # "200"
       THEN out(ex.fetch, IF r.kind \in RateLimited
                          THEN YahooHandleRateLimiting(rate.lim) ELSE rate.lim)
       ELSE IF r.shape = "notjson" THEN out(Raise(ex.fetch), rate.lim)
       ELSE IF r.shape = "nodata" THEN out(ex.fetch, rate.lim)
       ELSE IF ParseYahooResponse(r.payload, sym).raised THEN out(Raise(ex.fetch), rate.lim)
       ELSE out(Return(ex.fetch, YahooNormalize(r.payload, sym, n)), rate.lim)

\* PolygonIOService.fetch_stock_data
PolygonFetchStockData(l, now, sym, n, resp) ==
    LET rate == PolygonApplyRateLimit(l, now)
        ex == ExecuteWithRetry(resp, POLYGON_MAX_RETRIES, POLYGON_RETRY_BACKOFF_BASE, 1, NoFetch)
        r == Val(ex.response)
        out(f) == [fetch |-> CatchAll(f), lim |-> rate.lim, limsleeps |-> rate.sleeps]
    IN IF rate.raised THEN out(Raise(NoFetch))
       ELSE IF ex.fetch.raised \/ ex.response = None THEN out(ex.fetch)
       ELSE IF r.kind # "200" THEN out(ex.fetch)
       ELSE IF r.shape = "notjson" THEN out(Raise(ex.fetch))
       ELSE IF r.shape = "nodata" THEN out(ex.fetch)
       ELSE out(Return(ex.fetch, PolygonNormalize(r.payload, sym, n)))

\* fetch_stock_data_alphavantage: one request, no retry
AvShapes == {"data", "nodata", "notjson", "Error Message", "Note"}
FetchStockDataAlphavantage(sym, r) ==
    LET sent == Sent(NoFetch)
    IN CatchAll(
        IF r.kind \in Transport THEN Raise(sent)
        ELSE IF r.kind # "200" THEN Return(sent, Failure)
        ELSE IF r.shape = "notjson" THEN Raise(sent)
        ELSE IF r.shape = "nodata" THEN Return(sent, Failure)
        ELSE Return(sent, AlphaVantageNormalize(IF r.shape = "data" THEN "none" ELSE r.shape,
                                                r.payload, sym)))

\* fetch_stock_data_with_backoff.  What yf.download does in attempt k, approach
\* a, is plan[k][a]: a frame, an empty frame, an exception whose text holds
\* "429", or another exception.
YF_MAX_RETRIES == 3
YF_APPROACHES == 4
Download(kind, d) == [kind |-> kind, shape |-> "frame", payload |-> d]
FrameLen(d) == Len(d.timestamp)

\* the loop over the approaches of one attempt, from approach a on: the fetch
\* so far, hist (None or Some frame) and whether the 429 exception was raised
RECURSIVE YfApproachLoop(_, _, _)
YfApproachLoop(row, a, acc) ==
    IF a > YF_APPROACHES
    THEN [fetch |-> acc, hist |-> None, limited |-> FALSE]
    ELSE LET dl == row[a]
             sent == Sent(acc)
         IN CASE dl.kind = "frame" /\ FrameLen(dl.payload) >= YF_MIN_ROWS ->
                     [fetch |-> sent, hist |-> Some(dl.payload), limited |-> FALSE]
              [] dl.kind = "429" -> [fetch |-> sent, hist |-> None, limited |-> TRUE]
              [] OTHER -> YfApproachLoop(row, a + 1, sent)

\* the retry loop from iteration `attempt` on; base is the random.uniform(2, 5)
\* draw and jit[k] the random.uniform(1, 3) draw of iteration k
RECURSIVE YfRetryLoop(_, _, _, _, _, _)
YfRetryLoop(sym, plan, base, jit, attempt, acc) ==
    IF attempt >= YF_MAX_RETRIES
    THEN Return(acc, Failure)
    ELSE LET delay == base * 2 ^ attempt + jit[attempt]
             waited == IF attempt > 0 THEN Slept(acc, delay) ELSE acc
             tried == YfApproachLoop(plan[attempt + 1], 1, waited)
             more == attempt < YF_MAX_RETRIES - 1
         IN IF tried.limited \/ tried.hist = None
            THEN IF more THEN YfRetryLoop(sym, plan, base, jit, attempt + 1, tried.fetch)
                 ELSE Return(tried.fetch, Failure)
            ELSE Return(tried.fetch, ProcessStockData(sym, Val(tried.hist)))

FetchStockDataWithBackoff(sym, plan, base, jit) ==
    YfRetryLoop(sym, plan, base, jit, 0, NoFetch)

\* check_rate_limit_status answers False when no test endpoint answered 200
CheckReportsLimited(probes) ==
    IF \E i \in 1..Len(probes) : probes[i] = "200"
    THEN "True" ELSE "False"

\* check_rate_limit_status: probes are the answers of the two test URLs
CheckRateLimitStatus(probes) ==
    IF \E i \in 1..Len(probes) : probes[i] = "200"
    THEN "True" ELSE "proceed_carefully"

-----------------------------------------------------------------------------
(* scripts/marketgauge_analyzer.py: update_tsi_history *)

\* a CSV file: absent, or written with or without a header line
File(exists, header, rows) == [exists |-> exists, header |-> header, rows |-> rows]
NoHistory == File(FALSE, FALSE, <<>>)

\* the text of a scraped table cell holding the number value / 100, written
\* with `zeros` more trailing zeros than repr() writes ('5.50' for 5.5)
Text(value, zeros) == [value |-> value, zeros |-> zeros]
\* pandas.read_csv reads a numeric column as float64
ParseFloat(t) == t.value
\* DataFrame.to_csv writes a float by its repr
FormatFloat(v) == Text(v, 0)

\* a frame cell: a float read from the file, or the str the scraper gave
Float(v) == [kind |-> "float", value |-> v]
Str(t) == [kind |-> "str", text |-> t]

TsiRecord(date, timestamp, sym, tsi) ==
    [Date |-> date, Timestamp |-> timestamp, Symbol |-> sym, TSI |-> tsi]

\* pd.read_csv(history_path): the Date, Timestamp and Symbol columns stay str
ReadCsv(f) ==
    [i \in 1..Len(f.rows) |->
        TsiRecord(f.rows[i].Date, f.rows[i].Timestamp, f.rows[i].Symbol,
                  Float(ParseFloat(f.rows[i].TSI)))]
\* df.to_csv(history_path, index=False); a frame without columns gives a file
\* without a header line
ToCsv(header, frame) ==
    File(TRUE, header,
         [i \in 1..Len(frame) |->
            [frame[i] EXCEPT !.TSI = IF @.kind = "float" THEN FormatFloat(@.value)
                                     ELSE @.text]])

\* update_tsi_history(data) at time now with the history file f: the file it
\* leaves and how it ended
UpdateTsiHistory(f, items, now) ==
    LET date_str == DayOf(now)
        timestamp == now
        picked == SelectSeq(items, LAMBDA item : item.Symbol \in {"SPY", "QQQ"})
        tsi_records == [i \in 1..Len(picked) |->
                          TsiRecord(date_str, timestamp, picked[i].Symbol,
                                    Str(picked[i].TSI))]
        existing_df == SelectSeq(ReadCsv(f), LAMBDA r : r.Date # date_str)
    IN IF items = <<>> THEN [file |-> f, ended |-> "False"]
       ELSE IF ~f.exists
       THEN [file |-> ToCsv(tsi_records # <<>>, tsi_records), ended |-> "True"]
       ELSE IF ~f.header THEN [file |-> f, ended |-> "raised"]
       ELSE [file |-> ToCsv(TRUE, existing_df \o tsi_records), ended |-> "True"]

-----------------------------------------------------------------------------
(* Idle values of the variables a specification does not use *)

NormIdle ==
    /\ payload = EmptyPayload /\ symbol = UsSymbol /\ days = 1
    /\ normalizer = "none" /\ result = Failure
BatchIdle ==
    /\ orch = "none" /\ symbols = <<>> /\ pos = 0 /\ data = {} /\ failed = <<>>
    /\ successful = 0 /\ attempted = <<>> /\ lastFetch = <<>> /\ phase = "start"
    /\ rate_limit_status = "none"
LimIdle ==
    /\ svc = "none" /\ clock = 0 /\ lim = <<>> /\ lastCall = <<>> /\ passed = <<>>
NoFiles == [output |-> <<>>, status |-> <<>>]
NotRunning == [at |-> "none", write_failed |-> FALSE]
OutIdle ==
    /\ file = NoFiles /\ run = NotRunning
CalIdle ==
    /\ calNow = 0 /\ lastDay = <<>>
IbkrIdle ==
    /\ ib = FALSE /\ connected = FALSE /\ connects = 0
TsiIdle ==
    /\ history = NoHistory /\ tsiNow = 0 /\ tsiRun = <<>>

-----------------------------------------------------------------------------
(* SpecNorm: one payload, one normalizer run *)

NormSymbols == {UsSymbol, TaSymbol}

InitNorm ==
    /\ payload \in Payloads
    /\ symbol \in NormSymbols
    /\ days \in 1..MaxLookback
    /\ normalizer = "none"
    /\ result = Failure
    /\ BatchIdle /\ LimIdle /\ OutIdle /\ CalIdle /\ IbkrIdle /\ TsiIdle

Ran(name, r) ==
    /\ normalizer = "none"
    /\ normalizer' = name
    /\ result' = r
    /\ UNCHANGED <<payload, symbol, days>>
    /\ UNCHANGED batchVars /\ UNCHANGED limVars
    /\ UNCHANGED outVars /\ UNCHANGED calVars /\ UNCHANGED ibkrVars /\ UNCHANGED tsiVars

RunYahooService == Ran("yahoo_service", YahooNormalize(payload, symbol, days))
RunTa125 == Ran("ta125", ProcessYahooResponse(symbol, payload))
RunPolygon == Ran("polygon", PolygonNormalize(payload, symbol, days))
RunAlphaVantage ==
    \E flag \in AvFlags : Ran("alphavantage", AlphaVantageNormalize(flag, payload, symbol))
RunIbkr == Ran("ibkr", IbkrNormalize(payload, symbol, days))
RunYfinance == Ran("yfinance", ProcessStockData(symbol, payload))

NextNorm ==
    \/ RunYahooService
    \/ RunTa125
    \/ RunPolygon
    \/ RunAlphaVantage
    \/ RunIbkr
    \/ RunYfinance

SpecNorm == InitNorm /\ [][NextNorm]_vars

-----------------------------------------------------------------------------
(* SpecLimiter: one service object, a sequence of _apply_rate_limit calls   *)
(* with the clock moving between them (forward, or back as a local clock    *)
(* does when it is set back).                                                *)

MaxCalls == 5              \* calls made on one service object
StartClock == Seconds(2 * 60 * 60)
BackJump == Seconds(60 * 60)
Elapsed == {0, Seconds(7), Seconds(61), -BackJump}
\* random.randint(0, int((MAX_REQUEST_DELAY - MIN_REQUEST_DELAY) * 1000))
YahooDraws == {0, Seconds(YAHOO_MAX_REQUEST_DELAY - YAHOO_MIN_REQUEST_DELAY)}
LimServices == {"yahoo", "polygon", "ibkr", "earnings"}

\* the fields after k back-to-back calls, the last one returning at time end
IbkrAfterCalls(k, end) ==
    [stamps |-> [i \in 1..k |-> end - Seconds(IBKR_MIN_REQUEST_DELAY) * (k - i)],
     last |-> IF k = 0 THEN None ELSE Some(end)]
IbkrBusy == IBKR_MAX_REQUESTS_PER_10MIN - IBKR_MARGIN - 1

\* the limiter returned at time t; fifth: it was PolygonIOService's fifth
\* request of a group (request_count reached 5 and was set back to 0)
Pass(s, t, l) == [at |-> t, fifth |-> s = "polygon" /\ l.count = 0]

LimiterApply(s, l, now, rnd) ==
    CASE s = "yahoo" -> YahooApplyRateLimit(l, now, rnd)
      [] s = "polygon" -> PolygonApplyRateLimit(l, now)
      [] s = "ibkr" -> IbkrApplyRateLimit(l, now)
      [] s = "earnings" -> EarningsApplyRateLimit(l, now)

\* a service object at time c: its limiter fields and the passes so far
Start(l, hist, c) == [lim |-> l, passed |-> hist, clock |-> c]

\* k more calls made back to back (each as soon as the previous returned,
\* with the smallest random delay) on the object st; a call that raises ends
\* the run of calls
RECURSIVE BackToBack(_, _, _)
BackToBack(s, k, st) ==
    IF k = 0 THEN st
    ELSE LET r == LimiterApply(s, st.lim, st.clock, 0)
             end == st.clock + SumSeq(r.sleeps)
         IN IF r.raised THEN st
            ELSE BackToBack(s, k - 1,
                            Start(r.lim, Append(st.passed, Pass(s, end, r.lim)), end))

\* the service objects the runs start from: a new object, and objects that
\* have served a run of back-to-back calls - Yahoo a full minute's quota that
\* ends one second before the minute does, Polygon one request short of a
\* group of five, IBKR one short of the point where it starts to wait and, a
\* few calls later, two short of the ten-minute cap
LimiterInit(s) ==
    CASE s = "yahoo" ->
           {Start(YahooInit, <<>>, StartClock),
            BackToBack(s, YAHOO_MAX_REQUESTS_PER_MINUTE,
                       Start(YahooInit, <<>>, StartClock + Seconds(29)))}
      [] s = "polygon" ->
           {Start(PolygonInit, <<>>, StartClock),
            BackToBack(s, POLYGON_BURST - 1, Start(PolygonInit, <<>>, StartClock))}
      [] s = "ibkr" ->
           LET l == IbkrAfterCalls(IbkrBusy, StartClock)
               busy == Start(l, [i \in 1..IbkrBusy |-> Pass(s, l.stamps[i], l)], StartClock)
           IN {Start(IbkrInit, <<>>, StartClock), busy,
               BackToBack(s, IBKR_MAX_REQUESTS_PER_10MIN - 2 - IbkrBusy, busy)}
      [] s = "earnings" -> {Start(EarningsInit, <<>>, StartClock)}

InitLimiter ==
    /\ svc \in LimServices
    /\ \E st \in LimiterInit(svc) :
         clock = st.clock /\ lim = st.lim /\ passed = st.passed
    /\ lastCall = <<>>
    /\ NormIdle /\ BatchIdle /\ OutIdle /\ CalIdle /\ IbkrIdle /\ TsiIdle

CallsMade == IF lastCall = <<>> THEN 0 ELSE lastCall.n

\* the service calls its limiter at time now; the clock then stands at now
\* plus the time slept
Called(now, r) ==
    /\ CallsMade < MaxCalls
    /\ now >= 0
    /\ lim' = r.lim
    /\ clock' = now + SumSeq(r.sleeps)
    /\ lastCall' = [n |-> CallsMade + 1, sleeps |-> r.sleeps, raised |-> r.raised,
                    penalized |-> FALSE]
    /\ passed' = IF r.raised THEN passed
                 ELSE Append(passed, Pass(svc, now + SumSeq(r.sleeps), r.lim))
    /\ UNCHANGED svc
    /\ UNCHANGED normVars /\ UNCHANGED batchVars
    /\ UNCHANGED outVars /\ UNCHANGED calVars /\ UNCHANGED ibkrVars /\ UNCHANGED tsiVars

LimYahooCall ==
    /\ svc = "yahoo"
    /\ \E e \in Elapsed, rnd \in YahooDraws :
         Called(clock + e, YahooApplyRateLimit(lim, clock + e, rnd))

\* fetch_stock_data got a 429 or 503 after its limiter call
LimYahooPenalty ==
    /\ svc = "yahoo"
    /\ lastCall # <<>> /\ ~lastCall.penalized
    /\ lim' = YahooHandleRateLimiting(lim)
    /\ lastCall' = [lastCall EXCEPT !.penalized = TRUE]
    /\ UNCHANGED <<svc, clock, passed>>
    /\ UNCHANGED normVars /\ UNCHANGED batchVars
    /\ UNCHANGED outVars /\ UNCHANGED calVars /\ UNCHANGED ibkrVars /\ UNCHANGED tsiVars

LimPolygonCall ==
    /\ svc = "polygon"
    /\ \E e \in Elapsed : Called(clock + e, PolygonApplyRateLimit(lim, clock + e))

LimIbkrCall ==
    /\ svc = "ibkr"
    /\ \E e \in Elapsed : Called(clock + e, IbkrApplyRateLimit(lim, clock + e))

LimEarningsCall ==
    /\ svc = "earnings"
    /\ \E e \in Elapsed : Called(clock + e, EarningsApplyRateLimit(lim, clock + e))

NextLimiter ==
    \/ LimYahooCall
    \/ LimYahooPenalty
    \/ LimPolygonCall
    \/ LimIbkrCall
    \/ LimEarningsCall

SpecLimiter == InitLimiter /\ [][NextLimiter]_vars

\* the furthest a stored timestamp can lie ahead of the clock
MaxSkew == MaxCalls * BackJump
\* a generous cap on what one call can sleep
SleepCap == 2 * MaxSkew + TenMinutes + Seconds(60 + POLYGON_GAP + POLYGON_BURST_SLEEP)

\* C9: every _apply_rate_limit call of the four services returns: it makes at
\* most three sleeps, none with a negative argument (which would raise), their
\* total is bounded, and it does not raise - whatever the counters, the stored
\* timestamps and the clock, a clock set back included.
C9_LimiterReturns ==
    lastCall # <<>>
    => /\ ~lastCall.raised
       /\ Len(lastCall.sleeps) <= 3
       /\ \A i \in 1..Len(lastCall.sleeps) : lastCall.sleeps[i] >= 0
       /\ SumSeq(lastCall.sleeps) <= SleepCap
       /\ clock >= 0

\* a call that found 55 requests in the last ten minutes after the clock was
\* set back: it waited for the oldest to age out and then for the minimum gap
C9_Witness ==
    /\ svc = "ibkr" /\ lastCall # <<>> /\ ~lastCall.raised
    /\ Len(lastCall.sleeps) = 2
    /\ lastCall.sleeps[1] > TenMinutes

\* the clock was never set back between two passes
Forward == \A i \in 1..(Len(passed) - 1) : passed[i + 1].at >= passed[i].at

\* C15: YahooFinanceService's limiter lets at most MAX_REQUESTS_PER_MINUTE
\* requests through in any 60-second window: 16 consecutive passes never fall
\* within less than 60 seconds.
C15_YahooWindow ==
    (svc = "yahoo" /\ Forward)
    => \A i \in 1..(Len(passed) - YAHOO_MAX_REQUESTS_PER_MINUTE) :
         passed[i + YAHOO_MAX_REQUESTS_PER_MINUTE].at - passed[i].at >= Seconds(60)

\* C16: the request timestamps IBKRService._apply_rate_limit records are at
\* least MIN_REQUEST_DELAY apart, and no ten-minute window holds more than
\* MAX_REQUESTS_PER_10MIN of them: 61 consecutive ones span more than ten
\* minutes.
C16_IbkrSpacing ==
    svc = "ibkr"
    => /\ \A i \in 1..(Len(passed) - 1) :
            passed[i + 1].at - passed[i].at >= Seconds(IBKR_MIN_REQUEST_DELAY)
       /\ \A i \in 1..(Len(passed) - IBKR_MAX_REQUESTS_PER_10MIN) :
            passed[i + IBKR_MAX_REQUESTS_PER_10MIN].at - passed[i].at > TenMinutes
       /\ lim.stamps = SubSeq([i \in 1..Len(passed) |-> passed[i].at],
                              Len(passed) - Len(lim.stamps) + 1, Len(passed))

\* a service object that has recorded more than 60 timestamps, the latest
\* after a call that waited for the oldest of 55 to leave the window
C16_Witness ==
    /\ svc = "ibkr"
    /\ Len(passed) > IBKR_MAX_REQUESTS_PER_10MIN
    /\ lastCall # <<>> /\ Len(lastCall.sleeps) = 2
    /\ lastCall.n >= 2

\* C17: after PolygonIOService's limiter has let the fifth request of a group
\* through, at least 120 seconds pass before it lets the next one through.
C17_PolygonCooldown ==
    (svc = "polygon" /\ Forward)
    => \A i \in 1..(Len(passed) - 1) :
         passed[i].fifth => passed[i + 1].at - passed[i].at >= Seconds(120)

\* the counter as the test of the per-minute limit reads it: set to 0 first
\* when a minute has passed since the last request
PolygonCountAtTest(l, now) == IF MinuteElapsed(l, now) THEN 0 ELSE l.count

\* C24: PolygonIOService.request_count is in 0..4 whenever _apply_rate_limit
\* is entered, after any calls and any elapsed times, so the test
\* request_count >= MAX_REQUESTS_PER_MINUTE fails at whatever time the next
\* call comes.
C24_PolygonCountBelowLimit ==
    svc = "polygon"
    => /\ lim.count \in 0..(POLYGON_MAX_REQUESTS_PER_MINUTE - 1)
       /\ \A e \in Elapsed :
            PolygonCountAtTest(lim, clock + e) < POLYGON_MAX_REQUESTS_PER_MINUTE

\* the call just made was the fifth of a group: the counter reached 5 and is
\* back at 0 for the next entry
C24_Witness ==
    /\ svc = "polygon" /\ lastCall # <<>> /\ ~lastCall.raised
    /\ passed # <<>> /\ passed[Len(passed)].fifth
    /\ lim.count = 0

-----------------------------------------------------------------------------
(* SpecBatch: one run of a batch orchestrator over its symbol list.  The    *)
(* loop body is two steps: the adapter call (phase "fetched", lastFetch     *)
(* holds what the fetch did) and the recording of its result (phase "loop", *)
(* lastFetch keeps the symbol, whether every attempt was rate limited, and  *)
(* where the result went).                                                  *)

MaxSymbols == 2            \* length of the symbol lists that hold duplicates
Us2Symbol == <<"B">>
Ta2Symbol == <<"U", ".", "T", "A">>
TA125_SYMBOLS == <<TaSymbol, Ta2Symbol>>
\* the list a caller hands to fetch_multiple_stocks_with_breaks
ServiceSymbols == <<UsSymbol, TaSymbol>>

Orchestrators ==
    {"ta125_main", "sp500_main", "update_market_data", "yahoo_service", "polygon_service"}
Scripts == {"ta125_main", "sp500_main", "update_market_data"}
Services == {"yahoo_service", "polygon_service"}

ListsOver(S) == UNION {[1..n -> S] : n \in 1..MaxSymbols}
SymbolLists(o) ==
    CASE o = "ta125_main" -> {TA125_SYMBOLS}
      [] o = "sp500_main" -> ListsOver({UsSymbol, Us2Symbol})
      [] o = "update_market_data" -> ListsOver({TaSymbol, Ta2Symbol})
      [] OTHER -> {ServiceSymbols}

\* random.shuffle
Shuffles(s) == {[i \in 1..Len(s) |-> s[f[i]]] : f \in Permutations(1..Len(s))}

Keys(map) == {e.symbol : e \in map}
\* map[sym] = rows
Put(map, sym, rows) ==
    {e \in map : e.symbol # sym} \cup {[symbol |-> sym, rows |-> rows]}
Members(list) == {list[i] : i \in 1..Len(list)}

\* the responses to the three requests a fetch can send; a response that ends
\* a conversation (a 200 with a JSON body, a 404) is repeated to the end
Final(r) == r.kind \in {"200", "404"} /\ r.shape # "notjson"
ResponseSeqs ==
    {resp \in [1..3 -> Responses] : \A i \in 1..2 : Final(resp[i]) => resp[i + 1] = resp[i]}
TaJitters == {Seconds(2), Seconds(5)}                 \* random.uniform(2, 5)
\* a 200 whose body carries 'Error Message' or 'Note', with or without rows
AvResponses ==
    Responses \cup {Resp("200", sh, d) : sh \in {"Error Message", "Note"},
                                        d \in {EmptyPayload, GoodPayload}}
YfBases == {Seconds(2), Seconds(5)}                   \* random.uniform(2, 5)
YfJitters == {[k \in 1..2 |-> Seconds(j)] : j \in {1, 3}}   \* random.uniform(1, 3)
\* an attempt's four downloads: k empty or failing ones, then frames or 429s
YfRows ==
    {[a \in 1..YF_APPROACHES |-> IF a <= k THEN Download(p, EmptyPayload) ELSE t] :
        k \in {0, 1, YF_APPROACHES}, p \in {"empty", "error"},
        t \in {Download("frame", GoodPayload), Download("429", EmptyPayload)}}
YfPlans == [1..YF_MAX_RETRIES -> YfRows]
Probes == [1..2 -> {"200", "429", "500", "Exception"}]

\* run_daily_download has called download_market_data, which calls
\* polygon_service.fetch_multiple_stocks_with_breaks
Downloading == [at |-> "downloading", write_failed |-> FALSE]
\* what an output file holds: who wrote it and the results written
Output(by, n, failures, map) ==
    [by |-> by, successful_symbols |-> n, failed_symbols |-> failures, data |-> map]
\* the output file as an earlier run left it
PriorOutput == Output("earlier run", 1, <<>>, {[symbol |-> UsSymbol, rows |-> <<>>]})

InitBatch ==
    /\ orch \in Orchestrators
    /\ symbols \in SymbolLists(orch)
    /\ pos = 0 /\ data = {} /\ failed = <<>> /\ successful = 0
    /\ attempted = [i \in 1..Len(symbols) |-> 0]
    /\ lastFetch = <<>>
    /\ phase = "start"
    /\ rate_limit_status = "none"
    /\ svc = (CASE orch = "yahoo_service" -> "yahoo"
                [] orch = "polygon_service" -> "polygon"
                [] OTHER -> "none")
    /\ clock = IF orch \in Services THEN StartClock ELSE 0
    /\ lim = (CASE orch = "yahoo_service" -> YahooInit
                [] orch = "polygon_service" -> PolygonInit
                [] OTHER -> <<>>)
    /\ lastCall = <<>> /\ passed = <<>>
    /\ payload = EmptyPayload /\ symbol = UsSymbol
    /\ normalizer = "none" /\ result = Failure
    /\ days = IF orch \in Services THEN MaxLookback ELSE 1
    /\ run \in (IF orch = "polygon_service" THEN {NotRunning, Downloading}
                ELSE {NotRunning})
    /\ file \in (IF orch \in Scripts \/ run = Downloading
                 THEN {NoFiles, [NoFiles EXCEPT !.output = PriorOutput]}
                 ELSE {NoFiles})
    /\ CalIdle /\ IbkrIdle /\ TsiIdle

Idle3 ==
    /\ UNCHANGED <<payload, symbol, days, normalizer, result, orch, svc, lastCall, passed>>
    /\ UNCHANGED outVars /\ UNCHANGED calVars /\ UNCHANGED ibkrVars /\ UNCHANGED tsiVars

Idle4 == Idle3 /\ UNCHANGED rate_limit_status

\* shuffled_symbols = symbols.copy(); random.shuffle(shuffled_symbols)
StartShuffled(o) ==
    /\ orch = o /\ phase = "start"
    /\ symbols' \in Shuffles(symbols)
    /\ phase' = "loop"
    /\ UNCHANGED <<pos, data, failed, successful, attempted, lastFetch, clock, lim>>
    /\ Idle4

\* os.makedirs("public", exist_ok=True) raised (public is a regular file, the
\* directory cannot be created): the exception leaves the script before its
\* loop
MakedirsRaised ==
    /\ phase' = "raised"
    /\ UNCHANGED <<symbols, pos, data, failed, successful, attempted, lastFetch, clock, lim>>
    /\ Idle4

\* main: os.makedirs("public", exist_ok=True), then the shuffle
StartTa125Main ==
    \/ StartShuffled("ta125_main")
    \/ orch = "ta125_main" /\ phase = "start" /\ MakedirsRaised
StartYahooService == StartShuffled("yahoo_service")
StartPolygonService == StartShuffled("polygon_service")

\* without ALPHA_VANTAGE_API_KEY main returns before the loop; with it,
\* os.makedirs("public", exist_ok=True) comes first
StartSp500Main ==
    /\ orch = "sp500_main" /\ phase = "start"
    /\ \E api_key \in BOOLEAN :
         \/ /\ phase' = IF api_key THEN "loop" ELSE "returned"
            /\ UNCHANGED <<symbols, pos, data, failed, successful, attempted,
                           lastFetch, clock, lim>>
            /\ Idle4
         \/ api_key /\ MakedirsRaised

\* update_market_data: the rate-limit check and its early return, then
\* os.makedirs("public", exist_ok=True), outside every try block
StartUpdateMarketData ==
    /\ orch = "update_market_data" /\ phase = "start"
    /\ \E probes \in Probes :
         \/ /\ rate_limit_status' = CheckRateLimitStatus(probes)
            /\ IF rate_limit_status' = "False"
               THEN /\ phase' = "returned"
                    /\ failed' = symbols
               ELSE /\ phase' = "loop"
                    /\ failed' = failed
            /\ UNCHANGED <<symbols, pos, data, successful, attempted, lastFetch, clock, lim>>
            /\ Idle3
         \/ CheckRateLimitStatus(probes) # "False" /\ MakedirsRaised

\* every attempt up to the cap was answered 429 or 503
Exhausted(responses, cap) ==
    Len(responses) = cap /\ \A i \in 1..cap : responses[i].kind \in {"429", "503"}

\* a 200 answer carried 'Error Message' or 'Note' next to time-series rows
Noted(responses) ==
    \E i \in 1..Len(responses) :
        /\ responses[i].kind = "200" /\ responses[i].shape \in {"Error Message", "Note"}
        /\ Len(responses[i].payload.timestamp) > 0

\* the adapter was called for the symbol at list position pos + 1 and did f,
\* consuming the responses given
Fetched(f, responses) ==
    /\ lastFetch' = [symbol |-> symbols[pos + 1], responses |-> responses,
                     requests |-> f.requests, sleeps |-> f.sleeps,
                     raised |-> f.raised, result |-> f.result,
                     exhausted |-> Exhausted(responses, 3), noted |-> Noted(responses),
                     recorded |-> "pending"]
    /\ attempted' = [attempted EXCEPT ![pos + 1] = @ + 1]
    /\ phase' = "fetched"
    /\ UNCHANGED <<symbols, pos, data, failed, successful>>
    /\ Idle4

InLoop(o) == orch = o /\ phase = "loop" /\ pos < Len(symbols)

FetchTa125 ==
    /\ InLoop("ta125_main")
    /\ \E resp \in ResponseSeqs, jit \in [1..2 -> TaJitters] :
         LET f == FetchYahooFinanceData(symbols[pos + 1], resp, jit)
         IN Fetched(f, SubSeq(resp, 1, f.requests))
    /\ UNCHANGED <<clock, lim>>

FetchSp500 ==
    /\ InLoop("sp500_main")
    /\ \E r \in AvResponses :
         Fetched(FetchStockDataAlphavantage(symbols[pos + 1], r), <<r>>)
    /\ UNCHANGED <<clock, lim>>

FetchYfinance ==
    /\ InLoop("update_market_data")
    /\ \E plan \in YfPlans, base \in YfBases, jit \in YfJitters :
         Fetched(FetchStockDataWithBackoff(symbols[pos + 1], plan, base, jit), <<>>)
    /\ UNCHANGED <<clock, lim>>

FetchYahooService ==
    /\ InLoop("yahoo_service")
    /\ \E resp \in ResponseSeqs, rnd \in YahooDraws :
         LET out == YahooFetchStockData(lim, clock, rnd, symbols[pos + 1], days, resp)
         IN /\ Fetched(out.fetch, SubSeq(resp, 1, out.fetch.requests))
            /\ lim' = out.lim
            /\ clock' = clock + SumSeq(out.limsleeps) + SumSeq(out.fetch.sleeps)

FetchPolygonService ==
    /\ InLoop("polygon_service")
    /\ \E resp \in ResponseSeqs :
         LET out == PolygonFetchStockData(lim, clock, symbols[pos + 1], days, resp)
         IN /\ Fetched(out.fetch, SubSeq(resp, 1, out.fetch.requests))
            /\ lim' = out.lim
            /\ clock' = clock + SumSeq(out.limsleeps) + SumSeq(out.fetch.sleeps)

\* what is kept of the fetch once its result is recorded
Recorded(where) ==
    [symbol |-> lastFetch.symbol, responses |-> <<>>, requests |-> 0, sleeps |-> <<>>,
     raised |-> FALSE, result |-> Failure,
     exhausted |-> lastFetch.exhausted, noted |-> lastFetch.noted, recorded |-> where]

\* an exception that left the adapter leaves the loop and the orchestrator
Aborted ==
    /\ phase' = "aborted"
    /\ UNCHANGED <<symbols, pos, data, failed, successful, attempted, lastFetch, clock, lim>>

\* a failed fetch is counted nowhere
RecordSuccessOnly ==
    /\ orch \in Scripts /\ phase = "fetched"
    /\ IF lastFetch.raised THEN Aborted
       ELSE /\ IF Truthy(lastFetch.result)
               THEN /\ data' = Put(data, lastFetch.symbol, lastFetch.result.rows)
                    /\ successful' = successful + 1
                    /\ lastFetch' = Recorded("data")
               ELSE /\ UNCHANGED <<data, successful>>
                    /\ lastFetch' = Recorded("failed")
            /\ failed' = failed
            /\ pos' = pos + 1
            /\ phase' = "loop"
            /\ UNCHANGED <<symbols, attempted, clock, lim>>
    /\ Idle4

\* the three scripts: if stock_data: data[symbol] = stock_data; successful_updates
\* += 1, else: failed_symbols.append(symbol)
RecordScript ==
    /\ orch \in Scripts /\ phase = "fetched"
    /\ IF lastFetch.raised THEN Aborted
       ELSE /\ IF Truthy(lastFetch.result)
               THEN /\ data' = Put(data, lastFetch.symbol, lastFetch.result.rows)
                    /\ successful' = successful + 1
                    /\ failed' = failed
                    /\ lastFetch' = Recorded("data")
               ELSE /\ failed' = Append(failed, lastFetch.symbol)
                    /\ UNCHANGED <<data, successful>>
                    /\ lastFetch' = Recorded("failed")
            /\ pos' = pos + 1
            /\ phase' = "loop"
            /\ UNCHANGED <<symbols, attempted, clock, lim>>
    /\ Idle4

\* the break after the symbol at index i of n: 10-20 s after every fifth,
\* otherwise 3-6 s unless it was the last
YahooBreak(i, n, long) ==
    IF (i + 1) % 5 = 0 THEN Seconds(10 + IF long THEN 10 ELSE 0)
    ELSE IF i < n - 1 THEN Seconds(3 + IF long THEN 3 ELSE 0)
    ELSE 0

\* the mandatory break after every fifth symbol, unless it was the last
PolygonBreak(i, n) ==
    IF (i + 1) % 5 = 0 /\ i < n - 1 THEN Seconds(120) ELSE 0

\* the two services: if data and len(data) > 0: results[symbol] = data
RecordService(break) ==
    /\ phase = "fetched"
    /\ IF lastFetch.raised THEN Aborted
       ELSE /\ IF Truthy(lastFetch.result)
               THEN /\ data' = Put(data, lastFetch.symbol, lastFetch.result.rows)
                    /\ lastFetch' = Recorded("data")
               ELSE /\ data' = data
                    /\ lastFetch' = Recorded("dropped")
            /\ clock' = clock + break
            /\ pos' = pos + 1
            /\ phase' = "loop"
            /\ UNCHANGED <<symbols, failed, successful, attempted, lim>>
    /\ Idle4

RecordYahooService ==
    /\ orch = "yahoo_service"
    /\ \E long \in BOOLEAN : RecordService(YahooBreak(pos, Len(symbols), long))

RecordPolygonService ==
    /\ orch = "polygon_service"
    /\ RecordService(PolygonBreak(pos, Len(symbols)))

\* with open(path, 'w') as f: a write of the text ends in one of three ways:
\* the text is written; open raised; or open truncated the file and a write
\* (or the flush on leaving the with block) raised
WriteOutcomes == {"written", "open raised", "write raised"}
\* what is left of a text that was cut short where no reader gets a file of
\* the format from it: a JSON document cut anywhere, a CSV cut before its
\* header line was complete
Truncated == [by |-> "nobody", unreadable |-> TRUE]
\* the file that held before, after a write of text that ended as how
AfterWrite(before, text, cut, how) ==
    CASE how = "written" -> text
      [] how = "open raised" -> before
      [] how = "write raised" -> cut

\* after the loop: the scripts write the document with successful_symbols =
\* successful_updates and failed_symbols = failed_symbols, and what open or
\* json.dump raises leaves the script (update_market_data logs and re-raises
\* it); the services return the results map
Finish ==
    /\ phase = "loop" /\ pos = Len(symbols)
    /\ IF orch \in Scripts
       THEN \E how \in WriteOutcomes :
              /\ file' = [file EXCEPT !.output =
                            AfterWrite(@, Output("this run", successful, failed, data),
                                       Truncated, how)]
              /\ phase' = IF how = "written" THEN "done" ELSE "raised"
       ELSE /\ file' = file
            /\ phase' = "done"
    /\ UNCHANGED <<symbols, pos, data, failed, successful, attempted, lastFetch, clock, lim>>
    /\ UNCHANGED <<payload, symbol, days, normalizer, result, orch, svc, lastCall, passed, run>>
    /\ UNCHANGED rate_limit_status /\ UNCHANGED calVars /\ UNCHANGED ibkrVars /\ UNCHANGED tsiVars

\* the rest of run_daily_download leaves the loop's variables alone
AfterDownload ==
    /\ UNCHANGED batchVars /\ UNCHANGED limVars
    /\ UNCHANGED normVars /\ UNCHANGED calVars /\ UNCHANGED ibkrVars /\ UNCHANGED tsiVars

\* the orders in which the keys of the results map can have been inserted:
\* each key at a list position that holds it, the positions increasing
KeyOrders(map, list) ==
    {o \in [1..Cardinality(Keys(map)) -> Keys(map)] :
        /\ \A i, j \in DOMAIN o : i # j => o[i] # o[j]
        /\ \E p \in [DOMAIN o -> 1..Len(list)] :
             /\ \A i \in DOMAIN o : list[p[i]] = o[i]
             /\ \A i, j \in DOMAIN o : i < j => p[i] < p[j]}
\* for symbol, data_list in stock_data.items(): for item in data_list:
\* writer.writerow(...), stopped when n more rows are written, from key o[i] on
RECURSIVE RowsWritten(_, _, _, _)
RowsWritten(map, o, i, n) ==
    IF i > Len(o) \/ n = 0 THEN {}
    ELSE LET rows == (CHOOSE e \in map : e.symbol = o[i]).rows
             took == Min(n, Len(rows))
         IN {[symbol |-> o[i], rows |-> SubSeq(rows, 1, took)]}
            \cup RowsWritten(map, o, i + 1, n - took)
\* the rows in the order save_to_csv writes them, from key o[i] on
RECURSIVE AllRows(_, _, _)
AllRows(map, o, i) ==
    IF i > Len(o) THEN <<>>
    ELSE (CHOOSE e \in map : e.symbol = o[i]).rows \o AllRows(map, o, i + 1)
\* the position in o of the key whose list holds the n-th row written
RECURSIVE Owner(_, _, _, _)
Owner(map, o, i, n) ==
    LET len == Len((CHOOSE e \in map : e.symbol = o[i]).rows)
    IN IF n <= len THEN i ELSE Owner(map, o, i + 1, n - len)
\* what the proper, non-empty prefixes of the decimal text of the int v read
\* as ('1234' gives 123, 12 and 1; a lone '-' is no number)
RECURSIVE VolumePrefixes(_)
VolumePrefixes(v) ==
    IF v < 0 THEN {0 - w : w \in VolumePrefixes(0 - v)}
    ELSE IF v < 10 THEN {}
    ELSE {v \div 10} \cup VolumePrefixes(v \div 10)
\* the first n rows written, the last of them with v for its volume
CutVolume(map, o, n, v) ==
    LET part == RowsWritten(map, o, 1, n)
        e == CHOOSE x \in part : x.symbol = o[Owner(map, o, 1, n)]
    IN (part \ {e}) \cup {[e EXCEPT !.rows[Len(e.rows)].volume = v]}
\* a CSV of this run whose last line stops short: the rows before it, the row
\* it was written from and the number of its fields that were begun; with
\* fewer than 7 it is a short row, with 7 its volume field is empty or '-'
CutInLine(rows, row, begun) ==
    [by |-> "this run", successful_symbols |-> 0, failed_symbols |-> <<>>,
     data |-> rows, cut |-> [row |-> row, begun |-> begun]]
\* what save_to_csv can leave when a write raises after open, the text cut at
\* any byte: the header incomplete; the header and the first n rows (all of
\* them when only the last line end is missing); those and a line that stops
\* short; or those with the digits of the last volume cut, which reads as a
\* row with another volume
CsvCuts(map, list) ==
    {Truncated}
    \cup UNION {LET all == AllRows(map, o, 1)
                IN {Output("this run", 0, <<>>, RowsWritten(map, o, 1, n)) :
                      n \in 0..Len(all)}
                   \cup {CutInLine(RowsWritten(map, o, 1, n), all[n + 1], b) :
                           n \in 0..(Len(all) - 1), b \in 1..7}
                   \cup UNION {{Output("this run", 0, <<>>, CutVolume(map, o, n, v)) :
                                  v \in VolumePrefixes(all[n].volume)} :
                               n \in 1..Len(all)} :
                o \in KeyOrders(map, list)}

\* run_daily_download: if sp500_data: self.save_to_csv(...); save_to_csv logs
\* and re-raises what open or the writer raises
SaveToCsv ==
    /\ run.at = "downloading" /\ phase = "done"
    /\ IF data # {}
       THEN \E how \in WriteOutcomes, cut \in CsvCuts(data, symbols) :
              /\ file' = [file EXCEPT !.output =
                            AfterWrite(@, Output("this run", 0, <<>>, data), cut, how)]
              /\ run' = IF how = "written" THEN [run EXCEPT !.at = "saved"]
                        ELSE [at |-> "raised", write_failed |-> TRUE]
       ELSE /\ file' = file
            /\ run' = [run EXCEPT !.at = "saved"]
    /\ AfterDownload

\* the names run_daily_download has assigned when it reaches its summary
LocalNames == {"start_time", "health_status", "all_symbols", "sp500_data",
               "end_time", "duration"}
\* the summary reads ta125_data and sp500_data: a name never assigned raises
\* NameError, which the except clause logs and re-raises; otherwise
\* create_status_file writes status 'success', and only logs a failed write
Summarize ==
    /\ run.at = "saved"
    /\ IF {"ta125_data", "sp500_data"} \subseteq LocalNames
       THEN \E how \in WriteOutcomes :
              /\ file' = [file EXCEPT !.status = AfterWrite(@, "success", "truncated", how)]
              /\ run' = [at |-> "returned", write_failed |-> how # "written"]
       ELSE /\ file' = file
            /\ run' = [run EXCEPT !.at = "raised"]
    /\ AfterDownload

NextBatch ==
    \/ StartTa125Main
    \/ StartSp500Main
    \/ StartUpdateMarketData
    \/ StartYahooService
    \/ StartPolygonService
    \/ FetchTa125
    \/ FetchSp500
    \/ FetchYfinance
    \/ FetchYahooService
    \/ FetchPolygonService
    \/ RecordScript
    \/ RecordYahooService
    \/ RecordPolygonService
    \/ Finish
    \/ SaveToCsv
    \/ Summarize

SpecBatch == InitBatch /\ [][NextBatch]_vars

-----------------------------------------------------------------------------
(* SpecIbkr: one IBKRService.fetch_multiple_stocks_with_breaks call *)

\* the forms a caller writes a TASE symbol in: Yahoo 'T.TA', 'T.TLV', plain 'T'
TlvSymbol == <<"T", ".", "T", "L", "V">>
PlainSymbol == <<"T">>
IbkrSymbols == {TaSymbol, Ta2Symbol, TlvSymbol, PlainSymbol}
IbkrLists == UNION {[1..n -> IbkrSymbols] : n \in 1..MaxSymbols}

\* the connection fields of the service object
Conn(obj, flag, n) == [ib |-> obj, connected |-> flag, connects |-> n]

\* IBKRService.connect: self.ib = IB(); self.ib.connect(...); self._connected =
\* True; return True. When IB() or ib.connect raises it returns False
Connect(c, created, ok) ==
    IF created /\ ok THEN Conn(TRUE, TRUE, c.connects + 1)
    ELSE Conn(c.ib \/ created, c.connected, c.connects)

\* IBKRService.disconnect, when self.ib.disconnect() returns
Disconnect(c) ==
    IF c.ib /\ c.connected THEN [c EXCEPT !.connected = FALSE] ELSE c

\* what TWS does with one symbol: qualifyContracts returns nothing, returns a
\* contract or raises; reqHistoricalData raises or returns bars
Answer(qualify, kind, d) == [qualify |-> qualify, kind |-> kind, payload |-> d]
IbkrAnswers ==
    {Answer(q, k, d) : q \in {"qualified", "nothing", "raises"},
                       k \in {"bars", "raises"}, d \in {EmptyPayload, GoodPayload}}

\* IBKRService.fetch_stock_data
IbkrFetchStockData(c, l, now, sym, n, created, ok, answer) ==
    LET c1 == IF c.connected THEN c ELSE Connect(c, created, ok)
        r == IbkrApplyRateLimit(l, now)
    IN IF ~c1.connected
       THEN [conn |-> c1, lim |-> l, sleeps |-> <<>>, result |-> Failure]
       ELSE [conn |-> c1, lim |-> r.lim, sleeps |-> r.sleeps,
             result |-> IF r.raised \/ answer.qualify = "nothing"
                           \/ answer.kind = "raises"
                        THEN Failure
                        ELSE IbkrNormalize(answer.payload, sym, n)]

\* the 30 s break after every 50th symbol, unless it was the last
IbkrBreak(i, n) ==
    IF (i + 1) % 50 = 0 /\ i < n - 1 THEN Seconds(30) ELSE 0

InitIbkr ==
    /\ orch = "ibkr_service"
    /\ symbols \in IbkrLists
    /\ pos = 0 /\ data = {} /\ failed = <<>> /\ successful = 0
    /\ attempted = [i \in 1..Len(symbols) |-> 0]
    /\ lastFetch = <<>>
    /\ phase = "start"
    /\ rate_limit_status = "none"
    /\ svc = "ibkr" /\ clock = StartClock /\ lim = IbkrInit
    /\ lastCall = <<>> /\ passed = <<>>
    /\ payload = EmptyPayload /\ symbol = UsSymbol
    /\ normalizer = "none" /\ result = Failure
    /\ days = MaxLookback
    /\ ib \in BOOLEAN
    /\ connected \in (IF ib THEN BOOLEAN ELSE {FALSE})
    /\ connects = 0
    /\ OutIdle /\ CalIdle /\ TsiIdle

IdleIbkr ==
    /\ UNCHANGED <<payload, symbol, days, normalizer, result, orch, svc, lastCall, passed>>
    /\ UNCHANGED <<failed, successful, lastFetch, rate_limit_status>>
    /\ UNCHANGED outVars /\ UNCHANGED calVars /\ UNCHANGED tsiVars

\* shuffled_symbols = symbols.copy(); random.shuffle(shuffled_symbols);
\* if not self._connected: if not self.connect(): return results
StartIbkrService ==
    /\ orch = "ibkr_service" /\ phase = "start"
    /\ symbols' \in Shuffles(symbols)
    /\ \E created \in BOOLEAN, ok \in BOOLEAN :
         LET c == Conn(ib, connected, connects)
             c1 == IF connected THEN c ELSE Connect(c, created, ok)
         IN /\ ib' = c1.ib /\ connected' = c1.connected /\ connects' = c1.connects
            /\ phase' = IF c1.connected THEN "loop" ELSE "returned"
    /\ UNCHANGED <<pos, data, attempted, clock, lim>>
    /\ IdleIbkr

\* one pass of the loop body: data = self.fetch_stock_data(symbol, days=days);
\* if data and len(data) > 0: results[symbol] = data; the break
FetchIbkrService ==
    /\ InLoop("ibkr_service")
    /\ \E created \in BOOLEAN, ok \in BOOLEAN, answer \in IbkrAnswers :
         LET sym == symbols[pos + 1]
             out == IbkrFetchStockData(Conn(ib, connected, connects), lim, clock,
                                       sym, days, created, ok, answer)
         IN /\ ib' = out.conn.ib /\ connected' = out.conn.connected
            /\ connects' = out.conn.connects
            /\ lim' = out.lim
            /\ clock' = clock + SumSeq(out.sleeps) + IbkrBreak(pos, Len(symbols))
            /\ data' = IF Truthy(out.result) THEN Put(data, sym, out.result.rows)
                       ELSE data
    /\ attempted' = [attempted EXCEPT ![pos + 1] = @ + 1]
    /\ pos' = pos + 1
    /\ UNCHANGED <<symbols, phase>>
    /\ IdleIbkr

\* what leaves the try block, with the limiter fields l at time c, runs the
\* finally clause: self.disconnect().  There self.ib.disconnect() comes before
\* self._connected = False: what it raises leaves the method with the flag
\* still set, in place of the return or of the exception that was under way
Left(how, l, c) ==
    /\ \/ /\ LET d == Disconnect(Conn(ib, connected, connects))
             IN ib' = d.ib /\ connected' = d.connected /\ connects' = d.connects
          /\ phase' = how
       \/ /\ ib /\ connected
          /\ UNCHANGED ibkrVars
          /\ phase' = "aborted"
    /\ lim' = l /\ clock' = c
    /\ UNCHANGED <<symbols, pos, data, attempted>>
    /\ IdleIbkr

\* where a KeyboardInterrupt can leave fetch_stock_data, called at time now
\* with the limiter fields l: before _apply_rate_limit; inside it once the old
\* timestamps are dropped, before or after any of its sleeps; between its two
\* closing assignments; and after it, in a call to the gateway or the parsing
InterruptedFetch(l, now) ==
    LET cutoff == now - TenMinutes
        cleaned == [l EXCEPT !.stamps = SelectSeq(l.stamps, LAMBDA ts : ts > cutoff)]
        r == IbkrApplyRateLimit(l, now)
        end == now + SumSeq(r.sleeps)
        At(fields, c) == [lim |-> fields, clock |-> c]
    IN {At(l, now)}
       \cup {At(cleaned, now + SumSeq(SubSeq(r.sleeps, 1, k))) : k \in 0..Len(r.sleeps)}
       \cup (IF r.raised THEN {}
             ELSE {At([r.lim EXCEPT !.last = l.last], end), At(r.lim, end)})

\* a KeyboardInterrupt before the try block, where no finally clause runs: in
\* the log calls or the shuffle, the fields as the caller left them; in
\* connect() once self.ib = IB() is set, while ib.connect runs or in the log
\* call after self._connected = True
InterruptedBeforeTry ==
    /\ phase = "start"
    /\ \/ UNCHANGED ibkrVars
       \/ /\ ~connected
          /\ ib' = TRUE /\ connected' \in BOOLEAN /\ connects' = connects
    /\ phase' = "aborted"
    /\ UNCHANGED <<symbols, pos, data, attempted, clock, lim>>
    /\ IdleIbkr

\* an exception that is no Exception (KeyboardInterrupt) leaves the method:
\* before the try block, or inside it, in the fetch of the next symbol or
\* after the last pass
InterruptIbkrService ==
    /\ orch = "ibkr_service"
    /\ \/ InterruptedBeforeTry
       \/ /\ phase = "loop"
          /\ \E at \in (IF pos < Len(symbols) THEN InterruptedFetch(lim, clock)
                        ELSE {[lim |-> lim, clock |-> clock]}) :
               Left("aborted", at.lim, at.clock)

\* the loop ran to its end; return results
FinishIbkrService ==
    /\ orch = "ibkr_service" /\ phase = "loop" /\ pos = Len(symbols)
    /\ Left("done", lim, clock)

NextIbkr ==
    \/ StartIbkrService
    \/ FetchIbkrService
    \/ InterruptIbkrService
    \/ FinishIbkrService

SpecIbkr == InitIbkr /\ [][NextIbkr]_vars

-----------------------------------------------------------------------------
(* The last complete trading day *)

SecondsPerHour == 60 * 60
\* datetime.hour, datetime.minute
HourOf(ts) == (ts % SecondsPerDay) \div SecondsPerHour
MinuteOf(ts) == (ts % SecondsPerHour) \div 60
\* current.replace(hour=0, minute=0, second=0, microsecond=0)
Midnight(ts) == DayOf(ts) * SecondsPerDay
\* what a computation returns: the datetime and the days it stepped back
Day(value, steps) == [value |-> value, steps |-> steps]

\* YahooFinanceService._get_last_trading_day: the while True loop from current
RECURSIVE YahooWalkBack(_, _, _, _)
YahooWalkBack(current, n, is_us_market, steps) ==
    LET market_close_hour == IF is_us_market THEN 16 ELSE 17
    IN IF YahooIsTradingDay(current, is_us_market)
       THEN IF HourOf(current) >= market_close_hour \/ DayOf(current) < DayOf(n)
            THEN Day(Midnight(current), steps)
            ELSE YahooWalkBack(current - SecondsPerDay, n, is_us_market, steps + 1)
       ELSE YahooWalkBack(current - SecondsPerDay, n, is_us_market, steps + 1)
YahooGetLastTradingDay(n, sym) == YahooWalkBack(n, n, YahooIsUsMarketSymbol(sym), 0)

\* PolygonIOService._get_last_complete_trading_day
RECURSIVE PolygonWalkBack(_, _, _, _)
PolygonWalkBack(current, n, is_us_market, steps) ==
    LET market_close_hour == IF is_us_market THEN 16 ELSE 17
    IN IF PolygonIsTradingDay(current, is_us_market)
       THEN IF HourOf(current) >= market_close_hour \/ DayOf(current) < DayOf(n)
            THEN Day(Midnight(current), steps)
            ELSE PolygonWalkBack(current - SecondsPerDay, n, is_us_market, steps + 1)
       ELSE PolygonWalkBack(current - SecondsPerDay, n, is_us_market, steps + 1)
PolygonGetLastCompleteTradingDay(n, sym) ==
    PolygonWalkBack(n, n, PolygonIsUsMarketSymbol(sym), 0)

\* IBKRService._get_last_complete_trading_day
RECURSIVE IbkrWalkBack(_, _, _)
IbkrWalkBack(current, n, steps) ==
    LET market_close_hour == 17
        market_close_minute == 25
    IN IF IsTaseTradingDay(current)
       THEN IF DayOf(current) < DayOf(n)
            THEN Day(Midnight(current), steps)
            ELSE IF HourOf(current) > market_close_hour
                    \/ (HourOf(current) = market_close_hour
                        /\ MinuteOf(current) >= market_close_minute)
            THEN Day(Midnight(current), steps)
            ELSE IbkrWalkBack(current - SecondsPerDay, n, steps + 1)
       ELSE IbkrWalkBack(current - SecondsPerDay, n, steps + 1)
IbkrGetLastCompleteTradingDay(n) == IbkrWalkBack(n, n, 0)

\* fetch_ta125_data.get_last_trading_day_tase: it returns a datetime that
\* keeps the time of day
GetLastTradingDayTase(n) ==
    IF Weekday(n) = 4 THEN Day(n - SecondsPerDay, 1)
    ELSE IF Weekday(n) = 5 THEN Day(n - 2 * SecondsPerDay, 2)
    ELSE IF Weekday(n) = 6
    THEN IF HourOf(n) < 10 THEN Day(n - 3 * SecondsPerDay, 3) ELSE Day(n, 0)
    ELSE Day(n, 0)

-----------------------------------------------------------------------------
(* SpecCalendar: one current time, one computation *)

MaxDays == 7                   \* the current day is one of MaxDays consecutive days
CalStartDay == 19723           \* 2024-01-01, a Monday
CalMinutes == {0, 24, 25, 59}
Nows ==
    {(CalStartDay + d) * SecondsPerDay + h * SecondsPerHour + m * 60 :
        d \in 0..(MaxDays - 1), h \in 0..23, m \in CalMinutes}

InitCalendar ==
    /\ calNow \in Nows
    /\ lastDay = <<>>
    /\ NormIdle /\ BatchIdle /\ LimIdle /\ OutIdle /\ IbkrIdle /\ TsiIdle

Computed(fn, sym, r) ==
    /\ lastDay = <<>>
    /\ lastDay' = [fn |-> fn, symbol |-> sym, value |-> r.value, steps |-> r.steps]
    /\ UNCHANGED calNow
    /\ UNCHANGED normVars /\ UNCHANGED batchVars /\ UNCHANGED limVars
    /\ UNCHANGED outVars /\ UNCHANGED ibkrVars /\ UNCHANGED tsiVars

CalcYahoo ==
    \E sym \in NormSymbols : Computed("yahoo", sym, YahooGetLastTradingDay(calNow, sym))
CalcPolygon ==
    \E sym \in NormSymbols :
        Computed("polygon", sym, PolygonGetLastCompleteTradingDay(calNow, sym))
CalcIbkr == Computed("ibkr", TaSymbol, IbkrGetLastCompleteTradingDay(calNow))
CalcTase == Computed("tase", TaSymbol, GetLastTradingDayTase(calNow))

NextCalendar ==
    \/ CalcYahoo
    \/ CalcPolygon
    \/ CalcIbkr
    \/ CalcTase

SpecCalendar == InitCalendar /\ [][NextCalendar]_vars

\* Mon-Fri for a US symbol, Sun-Thu for an Israeli one
TradingWeekday(ts, sym) ==
    IF YahooIsUsMarketSymbol(sym) THEN Weekday(ts) \in 0..4
    ELSE Weekday(ts) \in {6, 0, 1, 2, 3}
\* the close the computation itself names: 16:00 US, 17:00 Israel, 17:25 for
\* IBKR; get_last_trading_day_tase names none and the Israeli 17:00 is used
StillOpen(fn, ts, sym) ==
    IF fn = "ibkr" THEN HourOf(ts) < 17 \/ (HourOf(ts) = 17 /\ MinuteOf(ts) < 25)
    ELSE HourOf(ts) < (IF YahooIsUsMarketSymbol(sym) THEN 16 ELSE 17)

\* C12: the computation ends within a week of steps and returns a trading
\* weekday of the symbol's market that is not after today and, when today is a
\* trading day whose market is still open, is before today.
C12_LastCompleteTradingDay ==
    lastDay # <<>>
    => /\ lastDay.steps <= 7
       /\ TradingWeekday(lastDay.value, lastDay.symbol)
       /\ DayOf(lastDay.value) <= DayOf(calNow)
       /\ (TradingWeekday(calNow, lastDay.symbol)
           /\ StillOpen(lastDay.fn, calNow, lastDay.symbol))
          => DayOf(lastDay.value) < DayOf(calNow)

\* C30: for a TASE symbol YahooFinanceService._get_last_trading_day and
\* PolygonIOService._get_last_complete_trading_day return the date that
\* IBKRService._get_last_complete_trading_day returns at the same moment,
\* whatever the weekday, hour and minute
C30_SameDayAsIbkr ==
    (lastDay # <<>> /\ lastDay.fn \in {"yahoo", "polygon"}
     /\ ~YahooIsUsMarketSymbol(lastDay.symbol))
    => lastDay.value = IbkrGetLastCompleteTradingDay(calNow).value

-----------------------------------------------------------------------------
(* SpecTsi: update_tsi_history runs on one history file as time passes *)

MaxRuns == 3           \* update_tsi_history calls
MaxItems == 2          \* rows of the scraped table
TsiStart == CalStartDay * SecondsPerDay + 12 * SecondsPerHour
\* the times a run can come at: noon and a minute later, today and tomorrow
TsiTimes == {TsiStart + d * SecondsPerDay + m * 60 : d \in 0..1, m \in 0..1}
TsiItems ==
    {[Symbol |-> "SPY", TSI |-> Text(550, 1)], [Symbol |-> "SPY", TSI |-> Text(600, 0)],
     [Symbol |-> "QQQ", TSI |-> Text(550, 0)], [Symbol |-> "IWM", TSI |-> Text(550, 0)]}
TsiData == UNION {[1..n -> TsiItems] : n \in 0..MaxItems}
\* the file as runs of earlier days left it
EarlierHistories ==
    {UpdateTsiHistory(NoHistory, items, TsiStart - SecondsPerDay).file :
        items \in {<<[Symbol |-> "SPY", TSI |-> Text(55, 1)]>>,
                   <<[Symbol |-> "QQQ", TSI |-> Text(55, 0)]>>}}

InitTsi ==
    /\ history \in {NoHistory} \cup EarlierHistories
    /\ tsiNow = TsiStart
    /\ tsiRun = <<>>
    /\ NormIdle /\ BatchIdle /\ LimIdle /\ OutIdle /\ CalIdle /\ IbkrIdle

IdleTsi ==
    /\ UNCHANGED normVars /\ UNCHANGED batchVars /\ UNCHANGED limVars
    /\ UNCHANGED outVars /\ UNCHANGED calVars /\ UNCHANGED ibkrVars

RunsMade == IF tsiRun = <<>> THEN 0 ELSE tsiRun.n

\* time passes
Later ==
    /\ \E t \in TsiTimes :
         /\ t > tsiNow
         /\ tsiNow' = t
    /\ UNCHANGED <<history, tsiRun>>
    /\ IdleTsi

\* main: tsi_success = update_tsi_history(data), at a later time than the
\* call before
RunUpdateTsiHistory ==
    /\ RunsMade < MaxRuns
    /\ tsiRun # <<>> => tsiRun.at < tsiNow
    /\ \E items \in TsiData :
         LET out == UpdateTsiHistory(history, items, tsiNow)
         IN /\ history' = out.file
            /\ tsiRun' = [n |-> RunsMade + 1, at |-> tsiNow, data |-> items,
                          ended |-> out.ended]
    /\ UNCHANGED tsiNow
    /\ IdleTsi

NextTsi ==
    \/ Later
    \/ RunUpdateTsiHistory

SpecTsi == InitTsi /\ [][NextTsi]_vars

-----------------------------------------------------------------------------
(* Claims about the adapters and the orchestrators (SpecBatch) *)

RetryingOrchestrators == {"ta125_main", "yahoo_service", "polygon_service"}

\* C6: when every attempt for a symbol, up to the cap of 3, is answered 429 or
\* 503, the adapter returns the failure value after 3 requests without
\* raising; the orchestrator then does not put the symbol in the success map -
\* fetch_ta125_data.main appends it to the failure list - and goes on with the
\* next list position.
C6_ExhaustedRetriesFail ==
    (orch \in RetryingOrchestrators /\ lastFetch # <<>> /\ lastFetch.exhausted)
    => /\ phase \in {"fetched", "loop", "done", "raised"}
       /\ phase = "fetched"
          => /\ ~lastFetch.raised
             /\ lastFetch.result = Failure
             /\ lastFetch.requests = 3
       /\ phase # "fetched"
          => /\ lastFetch.recorded # "data"
             /\ symbols[pos] = lastFetch.symbol
             /\ orch = "ta125_main"
                => /\ lastFetch.recorded = "failed"
                   /\ failed[Len(failed)] = lastFetch.symbol
                   /\ lastFetch.symbol \notin Keys(data)

\* the first symbol of the TA125 list got three rate-limit answers, was put in
\* the failure list, and the run went on to the next symbol
C6_Witness ==
    /\ orch = "ta125_main" /\ phase = "loop"
    /\ pos = 1 /\ pos < Len(symbols)
    /\ lastFetch # <<>> /\ lastFetch.exhausted /\ lastFetch.recorded = "failed"
    /\ failed = <<symbols[1]>>

\* C7: in every batch orchestrator each list position is attempted exactly
\* once, in order, whatever the earlier outcomes: at any time the positions
\* processed so far were fetched once and the others not yet, no exception
\* leaves the loop, and a run that entered its loop ends only after the last
\* position (os.makedirs raising ends a script before its loop).
C7_EachPositionOnce ==
    /\ phase # "aborted"
    /\ Len(attempted) = Len(symbols)
    /\ \A i \in 1..Len(symbols) :
         attempted[i] = IF i <= pos \/ (phase = "fetched" /\ i = pos + 1) THEN 1 ELSE 0
    /\ phase = "done" => pos = Len(symbols)
    /\ phase = "raised" => pos \in {0, Len(symbols)}

\* a run that ended after its first symbol failed and a later one succeeded
C7_Witness ==
    /\ phase = "done" /\ orch \in Scripts
    /\ Len(symbols) >= 2
    /\ Len(failed) >= 1 /\ failed[1] = symbols[1]
    /\ symbols[Len(symbols)] \in Keys(data)
    /\ \A i \in 1..Len(symbols) : attempted[i] = 1

\* C8: in the document a script writes, successful_symbols is the number of
\* keys of data and no symbol is both a key of data and in failed_symbols.
C8_DocumentConsistent ==
    (orch \in Scripts /\ phase = "done")
    => /\ successful = Cardinality(Keys(data))
       /\ Keys(data) \cap Members(failed) = {}

\* the number of requests the adapter of the orchestrator may send per symbol
RequestCap == IF orch = "sp500_main" THEN 1 ELSE 3

\* C10: for one symbol an HTTP adapter sends at most 3 requests; a 429 or 503
\* answer is followed, while attempts remain, by a backoff wait and another
\* request; any other non-200 status ends the fetch with failure at that
\* request.  Every request but the first is preceded by one backoff wait.
C10_BoundedRetry ==
    (orch \in RetryingOrchestrators \cup {"sp500_main"} /\ phase = "fetched")
    => /\ lastFetch.requests \in 1..RequestCap
       /\ lastFetch.requests <= 3
       /\ Len(lastFetch.sleeps) = lastFetch.requests - 1
       /\ \A i \in 1..lastFetch.requests :
            /\ (lastFetch.responses[i].kind \in {"429", "503"} /\ i < RequestCap)
               => lastFetch.requests > i /\ lastFetch.sleeps[i] > 0
            /\ lastFetch.responses[i].kind = "404"
               => lastFetch.requests = i /\ lastFetch.result = Failure

\* a Yahoo service fetch answered 429, then 503, then 404
C10_Witness ==
    /\ orch = "yahoo_service" /\ phase = "fetched"
    /\ lastFetch.requests = 3
    /\ lastFetch.responses[1].kind = "429"
    /\ lastFetch.responses[2].kind = "503"
    /\ lastFetch.responses[3].kind = "404"
    /\ lastFetch.result = Failure

\* C11: a transport error (requests.exceptions.RequestException: timeout,
\* connection refused) at a request that is not the third for the symbol is
\* followed by a backoff wait and another request, in every HTTP adapter.
C11_TransportErrorRetried ==
    (orch \in RetryingOrchestrators \cup {"sp500_main"} /\ phase = "fetched")
    => \A i \in 1..lastFetch.requests :
         (lastFetch.responses[i].kind = "RequestException" /\ i < 3)
         => /\ lastFetch.requests > i
            /\ Len(lastFetch.sleeps) >= i
            /\ lastFetch.sleeps[i] > 0

\* the run has finished its loop and is past the point where it writes its
\* output file, and no write has failed
WritePassed ==
    \/ orch \in Scripts /\ phase = "done"
    \/ run.at \in {"saved", "raised", "returned"} /\ ~run.write_failed

\* C13: a run that has finished iterating its symbol list has replaced the
\* content of its output file by this run's results, also when no symbol
\* succeeded.
C13_OutputReplaced ==
    WritePassed
    => /\ file.output # <<>>
       /\ file.output.by = "this run"
       /\ file.output.data = data

\* C20: run_daily_download raises only when a file write fails: when no write
\* failed it returns and download_status.json holds status 'success'.
C20_RaisesOnlyOnWriteFailure ==
    (run.at \in {"raised", "returned"} /\ ~run.write_failed)
    => /\ run.at = "returned"
       /\ file.status = "success"

\* C14: two consecutive requests PolygonIOService sends are at least 12
\* seconds apart.  Between two requests for the same symbol the service does
\* nothing but sleep, so the time between them is that sleep.
C14_PolygonRequestsSpaced ==
    (orch = "polygon_service" /\ phase = "fetched")
    => \A i \in 1..Len(lastFetch.sleeps) : lastFetch.sleeps[i] >= Seconds(POLYGON_GAP)

\* C18: when Alpha Vantage answers 200 with a body carrying 'Error Message' or
\* 'Note', also next to time-series rows, fetch_stock_data_alphavantage returns
\* the failure value without raising, and main's next step appends the symbol
\* to failed_symbols, stores nothing in data, so that the symbol is no key of
\* data, and goes on with the loop.
C18_NotedIsFailure ==
    /\ [](((orch = "sp500_main" /\ phase = "fetched" /\ lastFetch.noted)
           => (lastFetch.result = Failure /\ ~lastFetch.raised)))
    /\ [][(orch = "sp500_main" /\ phase = "fetched" /\ lastFetch.noted)
          => /\ failed' = Append(failed, lastFetch.symbol)
             /\ data' = data /\ successful' = successful
             /\ lastFetch.symbol \notin Keys(data')
             /\ pos' = pos + 1 /\ phase' = "loop"]_vars



\* C22: within the retries of one symbol each backoff wait is strictly longer
\* than the one before it, whatever the jitter draws, in
\* fetch_yahoo_finance_data, fetch_stock_data_with_backoff and
\* _execute_with_retry.
C22_BackoffIncreases ==
    (orch \in {"ta125_main", "update_market_data", "yahoo_service", "polygon_service"}
     /\ phase = "fetched")
    => \A i \in 1..(Len(lastFetch.sleeps) - 1) :
         lastFetch.sleeps[i + 1] > lastFetch.sleeps[i]

\* C23: in the three scripts, after the first i list positions the success
\* counter and the length of the failure list sum to i, and in the document
\* written successful_symbols + len(failed_symbols) is the length of the
\* symbol list, repeated tickers or not.
C23_CountersSumToPositions ==
    orch \in Scripts
    => /\ phase \in {"loop", "fetched", "done", "raised"}
          => successful + Len(failed) = pos
       /\ (phase = "done" /\ file.output # <<>> /\ file.output.by = "this run")
          => file.output.successful_symbols + Len(file.output.failed_symbols)
             = Len(symbols)

\* a document was written for a list that repeats a ticker, one of whose
\* positions succeeded and the other failed
C23_Witness ==
    /\ orch \in Scripts /\ phase = "done"
    /\ Len(symbols) = 2 /\ symbols[1] = symbols[2]
    /\ file.output # <<>> /\ file.output.by = "this run"
    /\ file.output.successful_symbols = 1 /\ Len(file.output.failed_symbols) = 1

\* C25 as stated: check_rate_limit_status never answers False, whatever its
\* two test endpoints answer or raise, so update_market_data never takes the
\* early 'Rate limited by Yahoo Finance' return, always walks its whole list
\* and always writes its file
C25_AlwaysWritesFile ==
    orch = "update_market_data"
    => /\ \A probes \in Probes : CheckRateLimitStatus(probes) # "False"
       /\ rate_limit_status # "False"
       /\ phase \notin {"returned", "aborted"}
       /\ phase \in {"done", "raised"}
          => /\ pos = Len(symbols)
             /\ file.output # <<>> /\ file.output.by = "this run"

\* C25, amended: check_rate_limit_status never answers False, so
\* update_market_data never takes the early 'Rate limited by Yahoo Finance'
\* return.  It either walks its whole list and has written its file when it
\* returns, or is left by an exception: of os.makedirs before the first
\* symbol, or of the write after the last, and then the file is not this
\* run's document
C25_NeverRateLimitedReturn ==
    orch = "update_market_data"
    => /\ \A probes \in Probes : CheckRateLimitStatus(probes) # "False"
       /\ rate_limit_status # "False"
       /\ phase \notin {"returned", "aborted"}
       /\ phase = "done"
          => /\ pos = Len(symbols)
             /\ file.output # <<>> /\ file.output.by = "this run"
       /\ phase = "raised"
          => /\ pos \in {0, Len(symbols)}
             /\ file.output = <<>> \/ file.output.by # "this run"
\* no test endpoint answered 200, and the run still went through its list and
\* wrote its file
C25_Witness ==
    /\ orch = "update_market_data" /\ rate_limit_status = "proceed_carefully"
    /\ phase = "done" /\ pos = Len(symbols) /\ Len(symbols) >= 2
    /\ file.output # <<>> /\ file.output.by = "this run"

\* C28: a fetch_stock_data that ends on a final 429 or 503 leaves the limiter
\* fields different from what its _apply_rate_limit call set (later requests
\* are delayed more); any other fetch leaves them as _apply_rate_limit set
\* them; for YahooFinanceService and PolygonIOService alike
EndedRateLimited(f) ==
    f.responses # <<>> /\ f.responses[Len(f.responses)].kind \in {"429", "503"}
C28_PenaltyOnFinalRateLimit ==
    [][(orch \in Services /\ phase = "loop" /\ phase' = "fetched")
       => \E rnd \in YahooDraws :
            LET applied == LimiterApply(svc, lim, clock, rnd).lim
            IN IF EndedRateLimited(lastFetch') THEN lim' # applied
               ELSE lim' = applied]_vars

-----------------------------------------------------------------------------
(* Claims about the IBKR batch call (SpecIbkr) *)

\* C26: when IBKRService.fetch_multiple_stocks_with_breaks has returned or let
\* an exception through, _connected is False, whatever the per-symbol
\* outcomes were; and connect() returned True at most once during the call
C26_DisconnectedAfterCall ==
    orch = "ibkr_service"
    => /\ phase \in {"returned", "done", "aborted"} => ~connected
       /\ connects <= 1


\* C27: in the mapping fetch_multiple_stocks_with_breaks returns, every record
\* stored under key s has symbol = s, for the input forms 'T.TA', 'T.TLV' and
\* plain 'T'; the conversion to IBKR form and back gives s again
C27_RecordsCarryKey ==
    orch = "ibkr_service"
    => \A e \in data :
         /\ \A i \in 1..Len(e.rows) : e.rows[i].symbol = e.symbol
         /\ ConvertSymbolToYahoo(ConvertSymbolForIbkr(e.symbol)) = e.symbol

-----------------------------------------------------------------------------
(* Claims about the TSI history (SpecTsi) *)

\* the records of f dated other than day, as pandas reads them
OtherDates(f, day) == SelectSeq(ReadCsv(f), LAMBDA r : r.Date # day)
\* C29: a run of update_tsi_history that follows a run of the same date with
\* the same scraped data leaves the history file as that run left it; every
\* run leaves the records of all other dates unchanged and in their order
C29_IdempotentWithinDay ==
    [][(tsiRun' # tsiRun /\ tsiRun'.ended = "True")
       => /\ OtherDates(history', DayOf(tsiNow)) = OtherDates(history, DayOf(tsiNow))
          /\ (tsiRun # <<>> /\ tsiRun.ended = "True"
              /\ DayOf(tsiRun.at) = DayOf(tsiNow) /\ tsiRun.data = tsiRun'.data)
             => ReadCsv(history') = ReadCsv(history)]_vars

-----------------------------------------------------------------------------
(* Claims about the normalizers (SpecNorm) *)

ServiceNormalizers == {"yahoo_service", "polygon", "ibkr"}
StringDated == {"ta125", "alphavantage", "yfinance"}

\* the lookback the normalizer that ran was asked for
Lookback ==
    CASE normalizer \in ServiceNormalizers -> days
      [] normalizer = "ta125" -> TA_LOOKBACK
      [] normalizer = "alphavantage" -> AV_LOOKBACK
      [] normalizer = "yfinance" -> YF_LOOKBACK
      [] OTHER -> 0

\* the rows that survived its validation and calendar filter
Survivors ==
    CASE normalizer = "yahoo_service" -> YahooSurvivors(payload, symbol)
      [] normalizer = "polygon" -> PolygonSurvivors(payload, symbol)
      [] normalizer = "ibkr" -> IbkrSurvivors(payload, symbol)
      [] normalizer = "ta125" -> TaSurvivors(payload, symbol)
      [] normalizer = "alphavantage" -> AvSurvivors(payload, symbol)
      [] normalizer = "yfinance" -> YfSurvivors(payload, symbol)
      [] OTHER -> <<>>

\* the date a record made from a bar at time t carries
ResultDate(t) == IF normalizer \in StringDated THEN DateStr(t) ELSE t

IsSortedByDate(s) == \A i \in 1..(Len(s) - 1) : s[i].date <= s[i + 1].date
RecordPricesValid(r) ==
    r.high >= r.low /\ r.open > 0 /\ r.high > 0 /\ r.low > 0 /\ r.close > 0

\* row i of the payload lacks a required field or carries a null in one
BadRow(d, i) == \E f \in ArrayFields : i > Len(d[f]) \/ d[f][i] = None
\* the payload without its bad rows
WithoutBadRows(d) ==
    LET keep == SelectSeq(Indices(Len(d.timestamp)), LAMBDA i : ~BadRow(d, i))
        col(f) == [k \in 1..Len(keep) |-> d[f][keep[k]]]
    IN [timestamp |-> col("timestamp"), open |-> col("open"), high |-> col("high"),
        low |-> col("low"), close |-> col("close"), volume |-> col("volume")]
\* what the normalizer that ran returns for payload d
NormalizedBy(name, d) ==
    CASE name = "yahoo_service" -> YahooNormalize(d, symbol, days)
      [] name = "polygon" -> PolygonNormalize(d, symbol, days)
      [] name = "alphavantage" -> AlphaVantageNormalize("none", d, symbol)
\* the body carried neither 'Error Message' nor 'Note'
Unflagged == normalizer = "alphavantage" => result = NormalizedBy(normalizer, payload)

\* C19: when a payload has a row with a missing or null field, the Alpha
\* Vantage, Yahoo and Polygon normalizers return what they return for the same
\* payload without that row: the same rows, and a failure only if that is one.
C19_BadRowOnlyDropped ==
    (/\ normalizer \in {"alphavantage", "yahoo_service", "polygon"}
     /\ Unflagged
     /\ \E i \in 1..Len(payload.timestamp) : BadRow(payload, i))
    => LET clean == NormalizedBy(normalizer, WithoutBadRows(payload))
       IN result.rows = clean.rows /\ Truthy(result) = Truthy(clean)

\* C21: when the payload holds k >= 1 valid trading-day rows, fewer than the
\* lookback asked for, the TA125 fetcher, the yfinance fetcher and the Yahoo
\* service return exactly those k records and not the failure value.
C21_ShortHistoryReturned ==
    (/\ normalizer \in {"ta125", "yfinance", "yahoo_service"}
     /\ Len(Survivors) >= 1 /\ Len(Survivors) < Lookback
     /\ \A i \in 1..Len(payload.timestamp) : ~BadRow(payload, i))
    => result.ok /\ Len(result.rows) = Len(Survivors)

\* C1: every record of a result returned by process_yahoo_response,
\* _parse_yahoo_response (through fetch_stock_data), _parse_polygon_response,
\* fetch_stock_data_alphavantage or process_stock_data has high >= low and
\* open, high, low and close all > 0.
C1_PricesValid ==
    (normalizer \in {"ta125", "yahoo_service", "polygon", "alphavantage", "yfinance"}
     /\ result.ok)
    => \A i \in 1..Len(result.rows) : RecordPricesValid(result.rows[i])

\* bar j of the payload is complete, with valid prices
BarPricesValid(d, j) ==
    /\ \A f \in ArrayFields : j <= Len(d[f]) /\ d[f][j] # None
    /\ \A f \in PriceFields : Round4(Val(d[f][j])) > 0
    /\ Val(d.high[j]) >= Val(d.low[j])
BarIsNewest(d, j) == \A k \in 1..Len(d.timestamp) : d.timestamp[k] <= d.timestamp[j]
HasRecordAt(t) == \E i \in 1..Len(result.rows) : result.rows[i].date = ResultDate(t)

\* C2: every record of a result has volume >= 0; a bar whose vendor volume is
\* negative is rejected; a bar with volume 0 and valid prices is retained (here:
\* the newest bar of the payload, on a weekday that trades in both markets, so
\* that neither the calendar filter nor the truncation can remove it).
C2_VolumeNonNegative ==
    (normalizer \in {"yahoo_service", "alphavantage", "ibkr", "polygon", "ta125"}
     /\ result.ok)
    => /\ \A i \in 1..Len(result.rows) : result.rows[i].volume >= 0
       /\ \A j \in 1..Len(payload.volume) :
            (payload.volume[j] # None /\ Val(payload.volume[j]) < 0)
            => ~HasRecordAt(payload.timestamp[j])
       /\ \A j \in 1..Len(payload.timestamp) :
            (/\ BarPricesValid(payload, j)
             /\ Val(payload.volume[j]) = 0
             /\ BarIsNewest(payload, j)
             /\ Weekday(payload.timestamp[j]) <= 3)
            => HasRecordAt(payload.timestamp[j])

\* C3: a non-empty result is sorted ascending by date, is no longer than the
\* requested lookback, and holds the most recent of the rows that survived the
\* filtering: every survivor left out is no more recent than any row kept.
C3_SortedBounded ==
    (normalizer # "none" /\ result.ok /\ Len(result.rows) > 0)
    => LET sv == Survivors
           rows == result.rows
           kept == {rows[i] : i \in 1..Len(rows)}
       IN /\ IsSortedByDate(rows)
          /\ Len(rows) <= Lookback
          /\ Len(rows) = Min(Len(sv), Lookback)
          /\ kept \subseteq {sv[j] : j \in 1..Len(sv)}
          /\ \A j \in 1..Len(sv) :
               sv[j] \notin kept => \A r \in kept : sv[j].date <= r.date

\* more than 50 rows survived, out of date order, and 50 were returned
C3_Witness ==
    /\ normalizer = "ta125" /\ result.ok
    /\ Len(Survivors) > TA_LOOKBACK
    /\ ~IsSortedByDate(Survivors)
    /\ Len(result.rows) = TA_LOOKBACK

\* the market the normalizer that ran produces results for
MarketIsUs ==
    CASE normalizer = "ta125" -> FALSE
      [] normalizer = "alphavantage" -> TRUE
      [] OTHER -> YahooIsUsMarketSymbol(symbol)

\* C4: every record returned for a US-market symbol is dated Monday-Friday and
\* every record returned for an Israeli-market symbol Sunday-Thursday (Yahoo and
\* Polygon services, TA125 fetcher, Alpha Vantage fetcher, yfinance fetcher).
C4_TradingWeekdays ==
    (/\ normalizer \in {"yahoo_service", "polygon", "ta125", "alphavantage", "yfinance"}
     /\ MarketIsUs = YahooIsUsMarketSymbol(symbol)
     /\ result.ok)
    => \A i \in 1..Len(result.rows) :
         LET wd == Weekday(result.rows[i].date)
         IN IF MarketIsUs THEN wd \in 0..4 ELSE wd \in {6, 0, 1, 2, 3}

\* one parallel array has N-1 entries for N timestamps
Misaligned(d) ==
    \E f \in ArrayFields :
        /\ Len(d[f]) = Len(d.timestamp) - 1
        /\ \A g \in ArrayFields \ {f} : Len(d[g]) = Len(d.timestamp)
\* the payload without its trailing entry
DropTail(d) == [f \in DOMAIN d |-> SubSeq(d[f], 1, Len(d.timestamp) - 1)]

\* what the normalizer that ran gives for the N-1 aligned entries alone
AlignedResult ==
    IF normalizer = "ta125"
    THEN ProcessYahooResponse(symbol, DropTail(payload))
    ELSE YahooNormalize(DropTail(payload), symbol, days)

\* C5: with N timestamps and N-1 entries in one parallel array, both Yahoo-chart
\* normalizers drop only the misaligned trailing entry: when the N-1 aligned
\* entries alone give records, the misaligned payload gives the same records.
C5_MisalignedTailDropped ==
    (/\ normalizer \in {"ta125", "yahoo_service"}
     /\ Misaligned(payload)
     /\ Truthy(AlignedResult))
    => result = AlignedResult

====
